---- MODULE Spec2Model ----
(***************************************************************************)
(* slidev-overflow-checker: the Markdown structure parser (MarkdownParser,  *)
(* EnhancedMarkdownParser), the layout geometry (LayoutDefinitions) and the *)
(* text overflow predictor (TextPredictor).                                 *)
(*                                                                         *)
(* Representation.  A JavaScript string is a sequence of one-character      *)
(* strings, so that trim, startsWith, split and join are computed and not   *)
(* assumed; "\n" is an ordinary character of such a sequence.               *)
(***************************************************************************)
EXTENDS Integers, Sequences, FiniteSets, TLC

VARIABLES
  pc,            \* where the caller is: before the call or after it
  markdown,      \* the argument of parseSlides and of parsePresentation
  slides,        \* what parseSlides returned
  warnings,      \* EnhancedMarkdownParser.warnings
  presentation,  \* how parsePresentation completed
  layoutArgs,    \* the arguments of getLayoutContentArea
  layoutArea,    \* how getLayoutContentArea completed
  calibration,   \* TextPredictor.calibration
  textArgs,      \* the arguments of measureText and measureTextForLayout
  measurement,   \* how measureText or measureTextForLayout completed
  estimates,     \* the estimateTextWidth calls made so far, with their results
  page,          \* the rendered page the detectors inspect: document and location
  config,        \* OverflowDetector.config
  detected,      \* what the detectors returned, and the queries they made
  mapper,        \* SlideMapper: slides and sourceFile
  issue,         \* the arguments of addSourceInfo
  attributed,    \* how addSourceInfo completed
  heap,          \* the array objects the parser has created
  instance,      \* the fields of one EnhancedMarkdownParser
  returned,      \* what the parsePresentation calls on the instance returned
  checker,       \* SlidevChecker: options.pages, the slide count, the slides checked
  options,        \* the command line, the configuration file, the merged options
  nav,           \* one call of PageNavigator.navigateToSlide and what the page did
  session,       \* one call of SlidevChecker.check: sessions, workers, results
  scan           \* one scan of extractContentNodes: the lines, the index, the nodes

toolVars == <<page, config, detected, mapper, issue, attributed, heap, instance, returned,
              checker, options, nav, session, scan>>

vars == <<pc, markdown, slides, warnings, presentation, layoutArgs, layoutArea, calibration, textArgs,
          measurement, estimates, toolVars>>

(***************************************************************************)
(* String primitives                                                       *)
(***************************************************************************)
NL == "\n"

\* the characters String.prototype.trim and the regex class \s remove
IsWhitespace(c) == c \in {" ", "\t", NL}

RECURSIVE TrimStart(_)
TrimStart(s) ==
  IF s = <<>> THEN <<>>
  ELSE IF IsWhitespace(Head(s)) THEN TrimStart(Tail(s)) ELSE s

RECURSIVE TrimEnd(_)
TrimEnd(s) ==
  IF s = <<>> THEN <<>>
  ELSE IF IsWhitespace(s[Len(s)]) THEN TrimEnd(SubSeq(s, 1, Len(s) - 1)) ELSE s

Trim(s) == TrimEnd(TrimStart(s))

StartsWith(s, prefix) ==
  Len(s) >= Len(prefix) /\ SubSeq(s, 1, Len(prefix)) = prefix

\* String.prototype.includes for a one-character needle
Includes(s, c) == \E k \in 1..Len(s) : s[k] = c

\* markdown.split('\n'): always at least one piece, '' splits into ['']
RECURSIVE SplitFrom(_, _, _)
SplitFrom(s, k, cur) ==
  IF k > Len(s) THEN <<cur>>
  ELSE IF s[k] = NL THEN <<cur>> \o SplitFrom(s, k + 1, <<>>)
  ELSE SplitFrom(s, k + 1, Append(cur, s[k]))

SplitLines(s) == SplitFrom(s, 1, <<>>)

\* lines.join('\n'): [] joins into '', [x] into x
RECURSIVE JoinLines(_)
JoinLines(ls) ==
  IF ls = <<>> THEN <<>>
  ELSE IF Len(ls) = 1 THEN ls[1]
  ELSE ls[1] \o <<NL>> \o JoinLines(Tail(ls))

(***************************************************************************)
(* MarkdownParser                                                          *)
(***************************************************************************)
Dashes == <<"-", "-", "-">>

\* line.trim() === '---'
IsSeparatorLine(line) == Trim(line) = Dashes

globalKeys ==
  { <<"t","h","e","m","e">>,
    <<"h","i","g","h","l","i","g","h","t","e","r">>,
    <<"c","o","l","o","r","S","c","h","e","m","a">>,
    <<"f","a","v","i","c","o","n">>,
    <<"f","o","n","t","s">>,
    <<"c","a","n","v","a","s","W","i","d","t","h">>,
    <<"a","s","p","e","c","t","R","a","t","i","o">> }

slideKeys ==
  { <<"l","a","y","o","u","t">>,
    <<"c","l","a","s","s">>,
    <<"c","l","i","c","k","s">>,
    <<"t","r","a","n","s","i","t","i","o","n">>,
    <<"b","a","c","k","g","r","o","u","n","d">>,
    <<"b","a","c","k","g","r","o","u","n","d","S","i","z","e">>,
    <<"d","r","a","g","P","o","s">>,
    <<"p","r","e","l","o","a","d">>,
    <<"r","o","u","t","e","A","l","i","a","s">>,
    <<"h","i","d","e">> }

\* line.startsWith(key + ':') for some key of keys
StartsWithKey(line, keys) == \E key \in keys : StartsWith(line, key \o <<":">>)

\* lines is 1-based here; startIndex and i are the code's 0-based indexes
RECURSIVE GlobalScan(_, _)
GlobalScan(lines, i) ==
  IF i >= Len(lines) THEN FALSE
  ELSE IF Trim(lines[i + 1]) = Dashes THEN FALSE
  ELSE IF StartsWithKey(Trim(lines[i + 1]), globalKeys) THEN TRUE
  ELSE GlobalScan(lines, i + 1)

looksLikeGlobalFrontmatter(lines, startIndex) == GlobalScan(lines, startIndex + 1)

RECURSIVE SlideScan(_, _)
SlideScan(lines, i) ==
  IF i >= Len(lines) THEN FALSE
  ELSE IF Trim(lines[i + 1]) = Dashes THEN TRUE
  ELSE IF Trim(lines[i + 1]) = <<>> \/ StartsWith(Trim(lines[i + 1]), <<"#">>) THEN FALSE
  ELSE IF StartsWithKey(Trim(lines[i + 1]), slideKeys) THEN TRUE
  ELSE SlideScan(lines, i + 1)

looksLikeSlideFrontmatter(lines, startIndex) == SlideScan(lines, startIndex + 1)

ParsedSlide(content, startLine, endLine) ==
  [content |-> content, startLine |-> startLine, endLine |-> endLine]

\* the locals of parseSlides before its loop
ParseStart ==
  [ i |-> 0, slides |-> <<>>, currentSlide |-> <<>>, slideStartLine |-> 1,
    inGlobalFrontmatter |-> FALSE, inSlideFrontmatter |-> FALSE ]

\* lines 78-99: a standalone '---' outside of any frontmatter, at index st.i.
\* The first mutant takes the 0-based index for the line number of the slide's
\* end; the second forgets to step over a plain separator.
SeparatorBranchZeroBased(lines, st) ==
  LET i == st.i
      line == lines[i + 1]
      lineNumber == i + 1
      next == [st EXCEPT !.i = i + 1]
      pushed == IF Len(st.currentSlide) > 0
                THEN Append(st.slides,
                            ParsedSlide(JoinLines(st.currentSlide),
                                        st.slideStartLine, i - 1))
                ELSE st.slides
  IN IF looksLikeSlideFrontmatter(lines, i)
     THEN [next EXCEPT !.slides = pushed,
                       !.currentSlide = <<line>>,
                       !.slideStartLine = lineNumber,
                       !.inSlideFrontmatter = TRUE]
     ELSE [next EXCEPT !.slides = pushed,
                       !.currentSlide = <<>>,
                       !.slideStartLine = lineNumber + 1]

SeparatorBranchKeepsStart(lines, st) ==
  LET i == st.i
      line == lines[i + 1]
      lineNumber == i + 1
      next == [st EXCEPT !.i = i + 1]
      pushed == IF Len(st.currentSlide) > 0
                THEN Append(st.slides,
                            ParsedSlide(JoinLines(st.currentSlide),
                                        st.slideStartLine, lineNumber - 1))
                ELSE st.slides
  IN IF looksLikeSlideFrontmatter(lines, i)
     THEN [next EXCEPT !.slides = pushed,
                       !.currentSlide = <<line>>,
                       !.slideStartLine = lineNumber,
                       !.inSlideFrontmatter = TRUE]
     ELSE [next EXCEPT !.slides = pushed,
                       !.currentSlide = <<>>,
                       !.slideStartLine = lineNumber]

SeparatorBranch(lines, st) ==
  LET i == st.i
      line == lines[i + 1]
      lineNumber == i + 1
      next == [st EXCEPT !.i = i + 1]
      pushed == IF Len(st.currentSlide) > 0
                THEN Append(st.slides,
                            ParsedSlide(JoinLines(st.currentSlide),
                                        st.slideStartLine, lineNumber - 1))
                ELSE st.slides
  IN IF looksLikeSlideFrontmatter(lines, i)
     THEN [next EXCEPT !.slides = pushed,
                       !.currentSlide = <<line>>,
                       !.slideStartLine = lineNumber,
                       !.inSlideFrontmatter = TRUE]
     ELSE [next EXCEPT !.slides = pushed,
                       !.currentSlide = <<>>,
                       !.slideStartLine = lineNumber + 1]

\* one iteration of the for loop of parseSlides, at index st.i
ParseLine(lines, st) ==
  LET i == st.i
      line == lines[i + 1]
      lineNumber == i + 1
      next == [st EXCEPT !.i = i + 1]
  IN
  IF lineNumber = 1 /\ IsSeparatorLine(line) THEN
    IF looksLikeGlobalFrontmatter(lines, i)
    THEN [next EXCEPT !.inGlobalFrontmatter = TRUE]
    ELSE [next EXCEPT !.currentSlide = Append(st.currentSlide, line),
                      !.slideStartLine = lineNumber,
                      !.inSlideFrontmatter = TRUE]
  ELSE IF st.inGlobalFrontmatter /\ IsSeparatorLine(line) THEN
    [next EXCEPT !.inGlobalFrontmatter = FALSE, !.slideStartLine = lineNumber + 1]
  ELSE IF st.inGlobalFrontmatter THEN next
  ELSE IF st.inSlideFrontmatter /\ IsSeparatorLine(line) THEN
    [next EXCEPT !.currentSlide = Append(st.currentSlide, line),
                 !.inSlideFrontmatter = FALSE]
  ELSE IF IsSeparatorLine(line) /\ ~st.inSlideFrontmatter THEN
    SeparatorBranch(lines, st)
  ELSE [next EXCEPT !.currentSlide = Append(st.currentSlide, line)]

RECURSIVE ParseLoop(_, _)
ParseLoop(lines, st) ==
  IF st.i < Len(lines) THEN ParseLoop(lines, ParseLine(lines, st)) ELSE st

\* slide => slide.content.trim() !== ''   (the mutant keeps every slide)
KeepEverySlide(slide) == TRUE

NotEmptySlide(slide) == Trim(slide.content) # <<>>

parseSlides(md) ==
  IF md = <<>> \/ Trim(md) = <<>> THEN <<>>
  ELSE
    LET lines == SplitLines(md)
        st == ParseLoop(lines, ParseStart)
        all == IF Len(st.currentSlide) > 0
               THEN Append(st.slides,
                           ParsedSlide(JoinLines(st.currentSlide),
                                       st.slideStartLine, Len(lines)))
               ELSE st.slides
    IN SelectSeq(all, NotEmptySlide)

(***************************************************************************)
(* LayoutDefinitions                                                       *)
(* Layout names are strings (character sequences); slot names and positions *)
(* are only stored and compared, and are written as TLA+ strings.           *)
(***************************************************************************)
L_default == <<"d","e","f","a","u","l","t">>
L_full == <<"f","u","l","l">>
L_center == <<"c","e","n","t","e","r">>
L_two_cols == <<"t","w","o","-","c","o","l","s">>
L_two_cols_header == <<"t","w","o","-","c","o","l","s","-","h","e","a","d","e","r">>
L_image_left == <<"i","m","a","g","e","-","l","e","f","t">>
L_image_right == <<"i","m","a","g","e","-","r","i","g","h","t">>
L_cover == <<"c","o","v","e","r">>
L_fact == <<"f","a","c","t">>
L_quote == <<"q","u","o","t","e">>
L_statement == <<"s","t","a","t","e","m","e","n","t">>
L_section == <<"s","e","c","t","i","o","n">>
L_intro == <<"i","n","t","r","o">>
L_end == <<"e","n","d">>
L_image == <<"i","m","a","g","e">>
L_iframe == <<"i","f","r","a","m","e">>
L_iframe_left == <<"i","f","r","a","m","e","-","l","e","f","t">>
L_iframe_right == <<"i","f","r","a","m","e","-","r","i","g","h","t">>
L_none == <<"n","o","n","e">>

\* the own keys of the object literal LAYOUT_DEFINITIONS
OwnLayoutKeys ==
  { L_default, L_full, L_center, L_two_cols, L_two_cols_header,
    L_image_left, L_image_right, L_cover, L_fact, L_quote,
    L_statement, L_section, L_intro, L_end, L_image,
    L_iframe, L_iframe_left, L_iframe_right, L_none }

\* LAYOUT_DEFINITIONS is an object literal, so LAYOUT_DEFINITIONS[layout] also
\* finds what it inherits from Object.prototype.  Called as plain functions of
\* (canvasWidth, canvasHeight), with this undefined (module code is strict):
\*   constructor    Object(w, h) is a Number wrapper: no own enumerable property
\*   toString       "[object Undefined]": its spread holds index keys only
\*   isPrototypeOf  false for a primitive argument: nothing to spread
\*   valueOf, hasOwnProperty   TypeError (this is undefined)
\*   __proto__      Object.prototype itself: not callable, TypeError
P_constructor == <<"c","o","n","s","t","r","u","c","t","o","r">>
P_toString == <<"t","o","S","t","r","i","n","g">>
P_isPrototypeOf == <<"i","s","P","r","o","t","o","t","y","p","e","O","f">>
P_valueOf == <<"v","a","l","u","e","O","f">>
P_hasOwnProperty == <<"h","a","s","O","w","n","P","r","o","p","e","r","t","y">>
P_proto == <<"_","_","p","r","o","t","o","_","_">>

InheritedReturning == { P_constructor, P_toString, P_isPrototypeOf }

InheritedThrowing == { P_valueOf, P_hasOwnProperty, P_proto }

ObjectPrototypeKeys == InheritedReturning \cup InheritedThrowing

DEFAULT_PADDING == [left |-> 56, right |-> 56, top |-> 40, bottom |-> 40]

COLUMN_GAP == 16

EMPHASIS_EXTRA_PADDING == 100

HEADER_HEIGHT == 80

\* The mutant subtracts the padding of one side only.
calculateContentAreaOneSide(canvasWidth, canvasHeight, padding) ==
  [ width |-> canvasWidth - padding.left,
    height |-> canvasHeight - padding.top ]

calculateContentArea(canvasWidth, canvasHeight, padding) ==
  [ width |-> canvasWidth - padding.left - padding.right,
    height |-> canvasHeight - padding.top - padding.bottom ]

SlotInfo(name, width, height, position) ==
  [name |-> name, width |-> width, height |-> height, position |-> position]

\* Math.floor(x / 2)
FloorHalf(x) == x \div 2

DefaultLayout(canvasWidth, canvasHeight) ==
  LET area == calculateContentArea(canvasWidth, canvasHeight, DEFAULT_PADDING)
  IN [ slots |-> << SlotInfo("default", area.width, area.height, "full") >>,
       totalAvailableArea |-> area.width * area.height ]

FullLayout(canvasWidth, canvasHeight) ==
  [ slots |-> << SlotInfo("default", canvasWidth, canvasHeight, "full") >>,
    totalAvailableArea |-> canvasWidth * canvasHeight ]

TwoColsLayout(canvasWidth, canvasHeight) ==
  LET area == calculateContentArea(canvasWidth, canvasHeight, DEFAULT_PADDING)
      colWidth == FloorHalf(area.width - COLUMN_GAP)
  IN [ slots |-> << SlotInfo("left", colWidth, area.height, "left"),
                    SlotInfo("right", colWidth, area.height, "right") >>,
       totalAvailableArea |-> colWidth * area.height * 2 ]

TwoColsHeaderLayout(canvasWidth, canvasHeight) ==
  LET area == calculateContentArea(canvasWidth, canvasHeight, DEFAULT_PADDING)
      colWidth == FloorHalf(area.width - COLUMN_GAP)
      bodyHeight == area.height - HEADER_HEIGHT - COLUMN_GAP
  IN [ slots |-> << SlotInfo("header", area.width, HEADER_HEIGHT, "top"),
                    SlotInfo("left", colWidth, bodyHeight, "left"),
                    SlotInfo("right", colWidth, bodyHeight, "right") >>,
       totalAvailableArea |-> area.width * HEADER_HEIGHT + colWidth * bodyHeight * 2 ]

ImageLeftLayout(canvasWidth, canvasHeight) ==
  LET contentWidth == FloorHalf(canvasWidth) - DEFAULT_PADDING.right
      contentHeight == canvasHeight - DEFAULT_PADDING.top - DEFAULT_PADDING.bottom
  IN [ slots |-> << SlotInfo("default", contentWidth, contentHeight, "right") >>,
       totalAvailableArea |-> contentWidth * contentHeight ]

ImageRightLayout(canvasWidth, canvasHeight) ==
  LET contentWidth == FloorHalf(canvasWidth) - DEFAULT_PADDING.left
      contentHeight == canvasHeight - DEFAULT_PADDING.top - DEFAULT_PADDING.bottom
  IN [ slots |-> << SlotInfo("default", contentWidth, contentHeight, "left") >>,
       totalAvailableArea |-> contentWidth * contentHeight ]

FactLayout(canvasWidth, canvasHeight) ==
  LET area == calculateContentArea(canvasWidth, canvasHeight,
                [ DEFAULT_PADDING EXCEPT
                    !.left = DEFAULT_PADDING.left + EMPHASIS_EXTRA_PADDING \div 2,
                    !.right = DEFAULT_PADDING.right + EMPHASIS_EXTRA_PADDING \div 2 ])
  IN [ slots |-> << SlotInfo("default", area.width, area.height, "full") >>,
       totalAvailableArea |-> area.width * area.height ]

\* LAYOUT_DEFINITIONS[layout](canvasWidth, canvasHeight) for an own key
LAYOUT_DEFINITIONS(layout, canvasWidth, canvasHeight) ==
  CASE layout \in { L_default, L_center, L_cover, L_statement, L_section,
                    L_intro, L_end, L_none } -> DefaultLayout(canvasWidth, canvasHeight)
    [] layout \in { L_full, L_image, L_iframe } -> FullLayout(canvasWidth, canvasHeight)
    [] layout = L_two_cols -> TwoColsLayout(canvasWidth, canvasHeight)
    [] layout = L_two_cols_header -> TwoColsHeaderLayout(canvasWidth, canvasHeight)
    [] layout \in { L_image_left, L_iframe_left } -> ImageLeftLayout(canvasWidth, canvasHeight)
    [] layout \in { L_image_right, L_iframe_right } -> ImageRightLayout(canvasWidth, canvasHeight)
    [] layout \in { L_fact, L_quote } -> FactLayout(canvasWidth, canvasHeight)

\* How a call completes: it threw, or it returned an object that echoes the
\* layout and, when hasSlots, carries slots and totalAvailableArea.
LayoutThrew(layout) ==
  [ threw |-> TRUE, layout |-> layout, hasSlots |-> FALSE,
    slots |-> <<>>, totalAvailableArea |-> 0 ]

LayoutWithoutSlots(layout) ==
  [ threw |-> FALSE, layout |-> layout, hasSlots |-> FALSE,
    slots |-> <<>>, totalAvailableArea |-> 0 ]

LayoutReturned(layout, result) ==
  [ threw |-> FALSE, layout |-> layout, hasSlots |-> TRUE,
    slots |-> result.slots, totalAvailableArea |-> result.totalAvailableArea ]

\* layout is the property key the argument converts to
getLayoutContentArea(layout, canvasWidth, canvasHeight) ==
  IF layout \in OwnLayoutKeys
  THEN LayoutReturned(layout, LAYOUT_DEFINITIONS(layout, canvasWidth, canvasHeight))
  ELSE IF layout \in InheritedReturning THEN LayoutWithoutSlots(layout)
  ELSE IF layout \in InheritedThrowing THEN LayoutThrew(layout)
  ELSE LayoutReturned(layout, LAYOUT_DEFINITIONS(L_default, canvasWidth, canvasHeight))

(***************************************************************************)
(* TextPredictor                                                           *)
(* The code computes with IEEE doubles; the model computes exactly, with    *)
(* font sizes and line heights in tenths (17.6 is 176, 1.2 is 12) and every  *)
(* measured or available length in hundredths of a pixel.  Rounding to a     *)
(* double is monotone, so an order between two products is kept by it.       *)
(***************************************************************************)
CHAR_WIDTH_RATIO == 6

ElementTypes == { "h1", "h2", "h3", "h4", "paragraph", "code", "listItem" }

DEFAULT_FONT_SIZES ==
  [ h1 |-> 480, h2 |-> 360, h3 |-> 280, h4 |-> 240,
    paragraph |-> 176, code |-> 140, listItem |-> 176 ]

DEFAULT_LINE_HEIGHTS ==
  [ h1 |-> 12, h2 |-> 13, h3 |-> 14, h4 |-> 14,
    paragraph |-> 16, code |-> 15, listItem |-> 16 ]

createDefaultCalibration(canvasWidth, canvasHeight) ==
  [ slideDimensions |-> [canvasWidth |-> canvasWidth, canvasHeight |-> canvasHeight],
    actualPadding |-> DEFAULT_PADDING,
    actualFontSizes |-> DEFAULT_FONT_SIZES,
    actualLineHeights |-> DEFAULT_LINE_HEIGHTS,
    fontFamilies |-> [sans |-> "Roboto, sans-serif", mono |-> "Fira Code, monospace",
                      serif |-> "Georgia, serif"],
    contentArea |-> [ width |-> canvasWidth - DEFAULT_PADDING.left - DEFAULT_PADDING.right,
                      height |-> canvasHeight - DEFAULT_PADDING.top - DEFAULT_PADDING.bottom ] ]

getFontSize(cal, elementType) == cal.actualFontSizes[elementType]

\* `${size}px ${family}`, kept as the pair it is formatted from
getFontString(cal, elementType) ==
  [ size |-> getFontSize(cal, elementType),
    family |-> IF elementType = "code" THEN cal.fontFamilies.mono
               ELSE cal.fontFamilies.sans ]

\* The mutant shrinks the estimate with the length: the ratio divides the font
\* size per character instead of multiplying it.
estimateTextWidthShrinking(text, fontSize) ==
  IF Len(text) = 0 THEN 0 ELSE (fontSize * CHAR_WIDTH_RATIO) \div Len(text)

\* text.length * fontSize * 0.6, in hundredths of a pixel
estimateTextWidth(text, fontSize) == Len(text) * fontSize * CHAR_WIDTH_RATIO

MeasurementThrew == [ threw |-> TRUE ]

\* The mutant reports the difference whether or not the text overflows.
TextMeasurementSignedAmount(text, font, measuredWidth, measuredHeight, availableWidth, availableHeight) ==
  [ threw |-> FALSE, text |-> text, font |-> font,
    measuredWidth |-> measuredWidth, measuredHeight |-> measuredHeight,
    availableWidth |-> availableWidth, availableHeight |-> availableHeight,
    willOverflow |-> measuredWidth > availableWidth,
    overflowAmount |-> measuredWidth - availableWidth,
    confidence |-> "medium" ]

\* lines 183-196 and 237-250: the comparison and the returned object
TextMeasurement(text, font, measuredWidth, measuredHeight, availableWidth, availableHeight) ==
  LET willOverflow == measuredWidth > availableWidth
  IN [ threw |-> FALSE, text |-> text, font |-> font,
       measuredWidth |-> measuredWidth, measuredHeight |-> measuredHeight,
       availableWidth |-> availableWidth, availableHeight |-> availableHeight,
       willOverflow |-> willOverflow,
       overflowAmount |-> IF willOverflow THEN measuredWidth - availableWidth ELSE 0,
       confidence |-> "medium" ]

measureText(cal, text, elementType) ==
  LET fontSize == getFontSize(cal, elementType)
  IN TextMeasurement(text, getFontString(cal, elementType),
                     estimateTextWidth(text, fontSize),
                     fontSize * cal.actualLineHeights[elementType],
                     cal.contentArea.width * 100,
                     cal.contentArea.height * 100)

\* layoutArea.slots[0] throws when the returned object has no slots
measureTextForLayout(cal, text, elementType, layout) ==
  LET area == getLayoutContentArea(layout, cal.slideDimensions.canvasWidth,
                                   cal.slideDimensions.canvasHeight)
      fontSize == getFontSize(cal, elementType)
  IN IF area.threw \/ ~area.hasSlots THEN MeasurementThrew
     ELSE TextMeasurement(text, getFontString(cal, elementType),
                          estimateTextWidth(text, fontSize),
                          fontSize * cal.actualLineHeights[elementType],
                          (IF Len(area.slots) > 0 THEN area.slots[1].width
                           ELSE cal.contentArea.width) * 100,
                          (IF Len(area.slots) > 0 THEN area.slots[1].height
                           ELSE cal.contentArea.height) * 100)

(***************************************************************************)
(* EnhancedMarkdownParser                                                  *)
(* A JavaScript value carries its type tag.  A number is the exact decimal  *)
(* fraction n / d with d a power of ten (d = 1 for an integer); an object   *)
(* is a function from its own keys to values.  The keys read from parsed    *)
(* metadata (theme, canvasWidth, aspectRatio, fonts, overflowChecker,       *)
(* layout) are not properties of Object.prototype, so a key that is not an  *)
(* own key reads as undefined.                                              *)
(***************************************************************************)
JSString(s) == [t |-> "string", v |-> s]

JSNumber(n, d) == [t |-> "number", n |-> n, d |-> d]

JSBoolean(b) == [t |-> "boolean", v |-> b]

JSNull == [t |-> "null"]

JSUndefined == [t |-> "undefined"]

JSObject(o) == [t |-> "object", v |-> o]

EmptyObject == <<>>

\* obj[key] for reading and obj[key] = value for writing
GetProperty(obj, key) == IF key \in DOMAIN obj THEN obj[key] ELSE JSUndefined

SetProperty(obj, key, value) ==
  [k \in DOMAIN obj \cup {key} |-> IF k = key THEN value ELSE obj[k]]

\* a ?? b
Coalesce(a, b) == IF a.t \in {"null", "undefined"} THEN b ELSE a

\* !value
Falsy(value) ==
  \/ value.t \in {"null", "undefined"}
  \/ value = JSString(<<>>)
  \/ value = JSBoolean(FALSE)
  \/ value.t = "number" /\ value.n = 0

\* the character U+0060, which a TLA+ string cannot hold
Backtick == "U+0060"

Whitespace == {" ", "\t", NL, "\r"}

Digits == {"0", "1", "2", "3", "4", "5", "6", "7", "8", "9"}

Letters ==
  {"a", "b", "c", "d", "e", "f", "g", "h", "i", "j", "k", "l", "m",
   "n", "o", "p", "q", "r", "s", "t", "u", "v", "w", "x", "y", "z",
   "A", "B", "C", "D", "E", "F", "G", "H", "I", "J", "K", "L", "M",
   "N", "O", "P", "Q", "R", "S", "T", "U", "V", "W", "X", "Y", "Z"}

\* the regex class \w
WordChars == Letters \cup Digits \cup {"_"}

\* the regex atom . matches every character but a line terminator
IsDot(c) == c \notin {NL, "\r"}

AllIn(s, S) == \A k \in 1..Len(s) : s[k] \in S

\* the length of the longest prefix of s made of characters of S
RECURSIVE LeadingIn(_, _)
LeadingIn(s, S) ==
  IF s # <<>> /\ Head(s) \in S THEN 1 + LeadingIn(Tail(s), S) ELSE 0

EndsWith(s, suffix) ==
  Len(s) >= Len(suffix) /\ SubSeq(s, Len(s) - Len(suffix) + 1, Len(s)) = suffix

\* s.indexOf(c, from - 1) + 1 for a one-character c: 0 when there is none
RECURSIVE IndexFrom(_, _, _)
IndexFrom(s, c, from) ==
  IF from > Len(s) THEN 0
  ELSE IF s[from] = c THEN from ELSE IndexFrom(s, c, from + 1)

\* s.split(c) for a one-character separator
RECURSIVE SplitOn(_, _)
SplitOn(s, c) ==
  LET k == IndexFrom(s, c, 1)
  IN IF k = 0 THEN <<s>>
     ELSE <<SubSeq(s, 1, k - 1)>> \o SplitOn(SubSeq(s, k + 1, Len(s)), c)

\* pieces.join(sep)
RECURSIVE JoinWith(_, _)
JoinWith(pieces, sep) ==
  IF pieces = <<>> THEN <<>>
  ELSE IF Len(pieces) = 1 THEN pieces[1]
  ELSE pieces[1] \o sep \o JoinWith(Tail(pieces), sep)

DigitChars == <<"0", "1", "2", "3", "4", "5", "6", "7", "8", "9">>

DigitValue(c) == (CHOOSE k \in 1..10 : DigitChars[k] = c) - 1

RECURSIVE DigitsValue(_)
DigitsValue(s) ==
  IF s = <<>> THEN 0
  ELSE DigitsValue(SubSeq(s, 1, Len(s) - 1)) * 10 + DigitValue(s[Len(s)])

RECURSIVE Pow10(_)
Pow10(k) == IF k = 0 THEN 1 ELSE 10 * Pow10(k - 1)

\* the decimal fraction n / d without trailing zeros
RECURSIVE Decimal(_, _)
Decimal(n, d) ==
  IF d > 1 /\ n % 10 = 0 THEN Decimal(n \div 10, d \div 10) ELSE JSNumber(n, d)

NaN == [t |-> "number", nan |-> TRUE]

\* parseFloat(s): leading whitespace, a sign, digits, a fraction; NaN when no
\* digit is found.  Exponents and 'Infinity' are not read here.  u is the text
\* behind the sign, with ni integer digits and nf fraction digits.
DecimalOf(u, ni, nf, sign) ==
  IF ni + nf = 0 THEN NaN
  ELSE Decimal(sign * (DigitsValue(SubSeq(u, 1, ni)) * Pow10(nf)
                         + DigitsValue(SubSeq(u, ni + 2, ni + 1 + nf))),
               Pow10(nf))

FractionDigits(u, ni) ==
  IF Len(u) > ni /\ u[ni + 1] = "." THEN LeadingIn(SubSeq(u, ni + 2, Len(u)), Digits)
  ELSE 0

DecimalWith(u, ni, sign) == DecimalOf(u, ni, FractionDigits(u, ni), sign)

UnsignedFloat(u, sign) == DecimalWith(u, LeadingIn(u, Digits), sign)

SignedFloat(t) ==
  IF t # <<>> /\ Head(t) = "-" THEN UnsignedFloat(Tail(t), 0 - 1)
  ELSE IF t # <<>> /\ Head(t) = "+" THEN UnsignedFloat(Tail(t), 1)
  ELSE UnsignedFloat(t, 1)

parseFloat(s) == SignedFloat(TrimStart(s))

\* parseInt(s, 10) of a text of the form /^-?\d+$/
parseInt(s) ==
  IF StartsWith(s, <<"-">>) THEN JSNumber(0 - DigitsValue(Tail(s)), 1)
  ELSE JSNumber(DigitsValue(s), 1)

\* /^-?\d+$/.test(value)
IsIntegerText(value) ==
  LET body == IF StartsWith(value, <<"-">>) THEN Tail(value) ELSE value
  IN body # <<>> /\ AllIn(body, Digits)

\* /^-?\d+\.\d+$/.test(value)
IsDecimalText(value) ==
  LET body == IF StartsWith(value, <<"-">>) THEN Tail(value) ELSE value
      ni == LeadingIn(body, Digits)
      frac == SubSeq(body, ni + 2, Len(body))
  IN /\ ni >= 1
     /\ Len(body) > ni
     /\ body[ni + 1] = "."
     /\ frac # <<>>
     /\ AllIn(frac, Digits)

parseValue(value) ==
  IF \/ StartsWith(value, <<"\"">>) /\ EndsWith(value, <<"\"">>)
     \/ StartsWith(value, <<"'">>) /\ EndsWith(value, <<"'">>)
  THEN JSString(SubSeq(value, 2, Len(value) - 1))
  ELSE IF IsIntegerText(value) THEN parseInt(value)
  ELSE IF IsDecimalText(value) THEN parseFloat(value)
  ELSE IF value = <<"t","r","u","e">> THEN JSBoolean(TRUE)
  ELSE IF value = <<"f","a","l","s","e">> THEN JSBoolean(FALSE)
  ELSE IF value = <<"n","u","l","l">> \/ value = <<"~">> THEN JSNull
  ELSE JSString(value)

\* the locals of parseYamlLike before its loop; nestedKey is the key of result
\* that holds nestedObject (the object is always the one last stored there)
NoNestedObject == [isNull |-> TRUE]

YamlStart ==
  [result |-> EmptyObject, currentIndentLevel |-> 0, nestedObject |-> NoNestedObject]

\* one iteration of the loop of parseYamlLike (lines 157-184)
YamlLine(st, line) ==
  LET trimmed == Trim(line)
      indent == Len(line) - Len(TrimStart(line))
      colonIndex == IndexFrom(trimmed, ":", 1) - 1
      key == Trim(SubSeq(trimmed, 1, colonIndex))
      value == Trim(SubSeq(trimmed, colonIndex + 2, Len(trimmed)))
  IN IF trimmed = <<>> \/ StartsWith(trimmed, <<"#">>) THEN st
     ELSE IF colonIndex = -1 THEN st
     ELSE IF indent = 0
       THEN IF value = <<>> \/ value = <<"|">> \/ value = <<">">>
            THEN [result |-> SetProperty(st.result, key, JSObject(EmptyObject)),
                  currentIndentLevel |-> indent,
                  nestedObject |-> [isNull |-> FALSE, key |-> key]]
            ELSE [st EXCEPT !.result = SetProperty(st.result, key, parseValue(value)),
                            !.nestedObject = NoNestedObject]
     ELSE IF ~st.nestedObject.isNull /\ indent > st.currentIndentLevel
       THEN LET holder == st.nestedObject.key
                nested == st.result[holder].v
            IN [st EXCEPT !.result =
                  SetProperty(st.result, holder,
                              JSObject(SetProperty(nested, key, parseValue(value))))]
     ELSE st

RECURSIVE YamlLoop(_, _)
YamlLoop(st, lines) ==
  IF lines = <<>> THEN st ELSE YamlLoop(YamlLine(st, Head(lines)), Tail(lines))

\* No statement of the try block (lines 157-184) throws: the string methods
\* are total, and the assignments are to plain objects.  The catch block,
\* which holds the only warnings.push of the metadata parser, is not entered.
parseYamlLike(content) == YamlLoop(YamlStart, SplitLines(content)).result

\* lines[0]?.trim() !== '---', then the index of the closing '---' (0 if none)
FrontmatterEnd(lines) ==
  IF Trim(lines[1]) # Dashes THEN 0
  ELSE LET closing == { i \in 2..Len(lines) : Trim(lines[i]) = Dashes }
       IN IF closing = {} THEN 0
          ELSE CHOOSE i \in closing : \A j \in closing : i <= j

extractFrontmatter(md) ==
  LET lines == SplitLines(md)
      end == FrontmatterEnd(lines)
  IN IF end = 0 THEN EmptyObject
     ELSE parseYamlLike(JoinLines(SubSeq(lines, 2, end - 1)))

DEFAULT_CANVAS_WIDTH == 980

DEFAULT_CANVAS_HEIGHT == 552

\* the object literal of extractGlobalConfig (lines 113-119)
SlidevConfig(frontmatter) ==
  [ theme |-> Coalesce(GetProperty(frontmatter, <<"t","h","e","m","e">>), JSString(<<"d","e","f","a","u","l","t">>)),
    canvasWidth |-> Coalesce(GetProperty(frontmatter, <<"c","a","n","v","a","s","W","i","d","t","h">>),
                             JSNumber(DEFAULT_CANVAS_WIDTH, 1)),
    aspectRatio |-> Coalesce(GetProperty(frontmatter, <<"a","s","p","e","c","t","R","a","t","i","o">>),
                             JSString(<<"1","6","/","9">>)),
    fonts |-> GetProperty(frontmatter, <<"f","o","n","t","s">>),
    overflowChecker |-> GetProperty(frontmatter, <<"o","v","e","r","f","l","o","w","C","h","e","c","k","e","r">>) ]

extractGlobalConfig(md) == SlidevConfig(extractFrontmatter(md))

extractSlideFrontmatter(content) ==
  LET lines == SplitLines(content)
      end == FrontmatterEnd(lines)
  IN IF end = 0 THEN EmptyObject
     ELSE parseYamlLike(JoinLines(SubSeq(lines, 2, end - 1)))

\* Math.ceil(a / b) for b > 0
CeilDiv(a, b) == 0 - ((0 - a) \div b)

HeightThrew == [threw |-> TRUE]

HeightReturned(h) == [threw |-> FALSE, height |-> h]

\* lines 270-276, for the two numbers of the ratio.  The quotient h / w is
\* taken exactly: it is the double's value for the ratios whose h / w is a
\* binary fraction (16/9, 4/3, 1/1).
RatioHeight(width, w, h) ==
  IF w # NaN /\ h # NaN /\ w.n > 0 /\ h.n > 0
  THEN HeightReturned(CeilDiv(width.n * h.n * w.d, width.d * h.d * w.n))
  ELSE HeightReturned(DEFAULT_CANVAS_HEIGHT)

\* lines 269-276, for the pieces of aspectRatio.split('/')
PartsHeight(width, parts) ==
  IF Len(parts) = 2 THEN RatioHeight(width, parseFloat(parts[1]), parseFloat(parts[2]))
  ELSE HeightReturned(DEFAULT_CANVAS_HEIGHT)

\* width is a number.  aspectRatio.split is undefined on a number, a boolean
\* and an object, and calling it is a TypeError.
calculateCanvasHeight(width, aspectRatio) ==
  IF /\ width = JSNumber(DEFAULT_CANVAS_WIDTH, 1)
     /\ (aspectRatio = JSString(<<"1","6","/","9">>) \/ Falsy(aspectRatio))
  THEN HeightReturned(DEFAULT_CANVAS_HEIGHT)
  ELSE IF aspectRatio.t # "string" THEN HeightThrew
  ELSE PartsHeight(width, SplitOn(aspectRatio.v, "/"))

(* ---- the line patterns of extractContentNodes and of its sub-parsers ---- *)
\* lines[i] with the 0-based index of the code
At(lines, i) == lines[i + 1]

Max(a, b) == IF a >= b THEN a ELSE b

Min(a, b) == IF a <= b THEN a ELSE b

NoMatch == [matched |-> FALSE]

\* line.match(/^(#{1,6})\s+(.+)$/): \s+ takes all of the white space after
\* the hashes but leaves one character to (.+)
HeadingMatch(line) ==
  LET hashes == LeadingIn(line, {"#"})
      rest == SubSeq(line, hashes + 1, Len(line))
      spaces == LeadingIn(rest, Whitespace)
      taken == IF Len(rest) > spaces THEN spaces ELSE spaces - 1
      text == SubSeq(rest, taken + 1, Len(rest))
  IN IF hashes \in 1..6 /\ taken >= 1 /\ \A k \in 1..Len(text) : IsDot(text[k])
     THEN [matched |-> TRUE, level |-> hashes, text |-> text]
     ELSE NoMatch

Fence == <<Backtick, Backtick, Backtick>>

\* how many characters of s the list marker takes: [-*+] or \d+\. ; 0 if none
MarkerLength(s, ordered) ==
  IF ordered
  THEN LET digits == LeadingIn(s, Digits)
       IN IF digits >= 1 /\ Len(s) > digits /\ s[digits + 1] = "." THEN digits + 1
          ELSE 0
  ELSE IF s # <<>> /\ Head(s) \in {"-", "*", "+"} THEN 1 ELSE 0

\* line.match(listPattern): /^\s*[-*+]\s+/ or /^\s*\d+\.\s+/
ListPattern(line, ordered) ==
  LET body == TrimStart(line)
      marker == MarkerLength(body, ordered)
  IN /\ marker > 0
     /\ LeadingIn(SubSeq(body, marker + 1, Len(body)), Whitespace) >= 1

\* line.match(/^\s*[-*+]\s+.+/) or line.match(/^\s*\d+\.\s+.+/)
ListItemMatch(line, ordered) ==
  LET body == TrimStart(line)
      marker == MarkerLength(body, ordered)
      rest == SubSeq(body, marker + 1, Len(body))
      spaces == LeadingIn(rest, Whitespace)
  IN /\ marker > 0
     /\ \E taken \in 1..spaces : Len(rest) > taken /\ IsDot(rest[taken + 1])

\* the match of /!\[([^\]]*)\]\(([^)]+)\)/ that starts at position from
ImageMatchAt(line, from) ==
  LET closeAlt == IndexFrom(line, "]", from + 2)
      closeSrc == IndexFrom(line, ")", closeAlt + 2)
  IN IF /\ from + 1 <= Len(line)
        /\ line[from] = "!" /\ line[from + 1] = "["
        /\ closeAlt > 0
        /\ closeAlt + 1 <= Len(line) /\ line[closeAlt + 1] = "("
        /\ closeSrc > closeAlt + 2
     THEN [matched |-> TRUE,
           alt |-> SubSeq(line, from + 2, closeAlt - 1),
           src |-> SubSeq(line, closeAlt + 2, closeSrc - 1)]
     ELSE NoMatch

RECURSIVE ImageMatchFrom(_, _)
ImageMatchFrom(line, from) ==
  IF from > Len(line) THEN NoMatch
  ELSE IF ImageMatchAt(line, from).matched THEN ImageMatchAt(line, from)
  ELSE ImageMatchFrom(line, from + 1)

ImageMatch(line) == ImageMatchFrom(line, 1)

\* (\s[^>]*)?> at the head of s
TagTail(s) ==
  \/ s # <<>> /\ Head(s) = ">"
  \/ s # <<>> /\ Head(s) \in Whitespace /\ IndexFrom(s, ">", 2) > 0

\* the match of /<(v-click|v-clicks)(\s[^>]*)?>/ that starts at position from
OpenTagAt(line, from) ==
  LET s == SubSeq(line, from, Len(line))
      afterClick == SubSeq(s, 9, Len(s))
  IN IF ~StartsWith(s, <<"<","v","-","c","l","i","c","k">>) THEN NoMatch
     ELSE IF TagTail(afterClick) THEN [matched |-> TRUE, component |-> <<"v","-","c","l","i","c","k">>]
     ELSE IF afterClick # <<>> /\ Head(afterClick) = "s" /\ TagTail(Tail(afterClick))
       THEN [matched |-> TRUE, component |-> <<"v","-","c","l","i","c","k","s">>]
     ELSE NoMatch

\* the match of /<\/(v-click|v-clicks)>/ that starts at position from
CloseTagAt(line, from) ==
  LET s == SubSeq(line, from, Len(line))
  IN IF StartsWith(s, <<"<","/","v","-","c","l","i","c","k",">">>) THEN [matched |-> TRUE, component |-> <<"v","-","c","l","i","c","k">>]
     ELSE IF StartsWith(s, <<"<","/","v","-","c","l","i","c","k","s",">">>)
       THEN [matched |-> TRUE, component |-> <<"v","-","c","l","i","c","k","s">>]
     ELSE NoMatch

RECURSIVE OpenTagFrom(_, _)
OpenTagFrom(line, from) ==
  IF from > Len(line) THEN NoMatch
  ELSE IF OpenTagAt(line, from).matched THEN OpenTagAt(line, from)
  ELSE OpenTagFrom(line, from + 1)

RECURSIVE CloseTagFrom(_, _)
CloseTagFrom(line, from) ==
  IF from > Len(line) THEN NoMatch
  ELSE IF CloseTagAt(line, from).matched THEN CloseTagAt(line, from)
  ELSE CloseTagFrom(line, from + 1)

\* line.match(/<(v-click|v-clicks)(\s[^>]*)?>/) || line.match(/<\/(v-click|v-clicks)>/)
VClickMatch(line) ==
  IF OpenTagFrom(line, 1).matched THEN OpenTagFrom(line, 1) ELSE CloseTagFrom(line, 1)

\* line.match(/^::(\w+)::$/)
SlotMatch(line) ==
  LET name == SubSeq(line, 3, Len(line) - 2)
  IN IF /\ Len(line) >= 5
        /\ StartsWith(line, <<":", ":">>) /\ EndsWith(line, <<":", ":">>)
        /\ AllIn(name, WordChars)
     THEN [matched |-> TRUE, slotName |-> name]
     ELSE NoMatch

\* line.match(/^\s*\|[\s-:]+\|/)
IsHeaderSeparator(line) ==
  LET body == TrimStart(line)
      run == LeadingIn(SubSeq(body, 2, Len(body)), Whitespace \cup {"-", ":"})
  IN /\ body # <<>> /\ Head(body) = "|"
     /\ run >= 1
     /\ Len(body) >= run + 2 /\ body[run + 2] = "|"

NonBlank(piece) == Trim(piece) # <<>>

\* n as a template literal writes it, for n >= 0
RECURSIVE NaturalText(_)
NaturalText(n) ==
  IF n < 10 THEN <<DigitChars[n + 1]>>
  ELSE NaturalText(n \div 10) \o <<DigitChars[(n % 10) + 1]>>

(* ---- the sub-parsers; each returns its node and the index it stopped at ---- *)
\* the loop of parseCodeBlock (lines 481-488): the index of the closing fence,
\* or lines.length when the lines run out
RECURSIVE CodeBlockEnd(_, _)
CodeBlockEnd(lines, endIdx) ==
  IF endIdx < Len(lines) /\ Trim(At(lines, endIdx)) # Fence
  THEN CodeBlockEnd(lines, endIdx + 1)
  ELSE endIdx

UnclosedWarning(lineNumber) ==
  <<"U","n","c","l","o","s","e","d"," ","c","o","d","e"," ","b","l","o","c","k"," ","a","t"," ","l","i","n","e"," ">> \o NaturalText(lineNumber)

parseCodeBlock(lines, startIdx, slideIndex, slideStartLine, pushed) ==
  LET startLine == At(lines, startIdx)
      tag == SubSeq(startLine, 4, Len(startLine))
      language == IF StartsWith(startLine, Fence) /\ AllIn(tag, WordChars)
                  THEN tag ELSE <<>>
      endIdx == CodeBlockEnd(lines, startIdx + 1)
      closed == endIdx < Len(lines)
      codeLines == SubSeq(lines, startIdx + 2, endIdx)
      content == JoinLines(codeLines)
  IN [ node |-> [ type |-> "code-block",
                  lineStart |-> slideStartLine + startIdx,
                  lineEnd |-> slideStartLine + endIdx,
                  slideIndex |-> slideIndex,
                  content |-> JoinLines(SubSeq(lines, startIdx + 1,
                                               Min(endIdx + 1, Len(lines)))),
                  charCount |-> Len(content),
                  metadata |-> [language |-> language, lineCount |-> Len(codeLines)] ],
       endIndex |-> endIdx,
       warnings |-> IF closed THEN pushed
                    ELSE Append(pushed, UnclosedWarning(slideStartLine + startIdx)) ]

\* the loop of parseList (lines 530-553)
RECURSIVE ListLoop(_, _, _)
ListLoop(lines, ordered, st) ==
  IF st.endIdx >= Len(lines) THEN st
  ELSE
    LET line == At(lines, st.endIdx)
        indent == Len(line) - Len(TrimStart(line))
        depth == indent \div 2
    IN IF \/ ListPattern(line, ordered)
          \/ (LeadingIn(line, Whitespace) >= 1 /\ Len(st.listLines) > 0
                /\ Trim(line) # <<>>)
       THEN ListLoop(lines, ordered,
              [ endIdx |-> st.endIdx + 1,
                listLines |-> Append(st.listLines, line),
                maxDepth |-> Max(st.maxDepth, depth),
                itemCount |-> IF ListPattern(line, ordered) THEN st.itemCount + 1
                              ELSE st.itemCount ])
       ELSE IF /\ Trim(line) = <<>>
               /\ st.endIdx + 1 < Len(lines)
               /\ ListPattern(At(lines, st.endIdx + 1), ordered)
       THEN ListLoop(lines, ordered,
              [st EXCEPT !.endIdx = st.endIdx + 1,
                         !.listLines = Append(st.listLines, line)])
       ELSE st

\* the value parseList returns (lines 555-569), st being its locals after the loop
ListResult(startIdx, slideIndex, slideStartLine, ordered, st) ==
     [ node |-> [ type |-> "list",
                  lineStart |-> slideStartLine + startIdx,
                  lineEnd |-> slideStartLine + st.endIdx - 1,
                  slideIndex |-> slideIndex,
                  content |-> JoinLines(st.listLines),
                  metadata |-> [ordered |-> ordered, itemCount |-> st.itemCount,
                                maxDepth |-> st.maxDepth] ],
       endIndex |-> st.endIdx - 1 ]

parseList(lines, startIdx, slideIndex, slideStartLine, ordered) ==
  ListResult(startIdx, slideIndex, slideStartLine, ordered,
             ListLoop(lines, ordered,
                      [ endIdx |-> startIdx, listLines |-> <<>>, maxDepth |-> 0,
                        itemCount |-> 0 ]))

\* the loop of parseTable (lines 586-602)
RECURSIVE TableLoop(_, _)
TableLoop(lines, st) ==
  IF st.endIdx >= Len(lines) THEN st
  ELSE
    LET line == At(lines, st.endIdx)
        cellCount == Len(SelectSeq(SplitOn(line, "|"), NonBlank))
    IN IF Includes(line, "|")
       THEN TableLoop(lines,
              [ endIdx |-> st.endIdx + 1,
                tableLines |-> Append(st.tableLines, line),
                columns |-> Max(st.columns, cellCount),
                rows |-> IF IsHeaderSeparator(line) THEN st.rows ELSE st.rows + 1 ])
       ELSE st

\* the value parseTable returns (lines 604-620), st being its locals after the loop
TableResult(startIdx, slideIndex, slideStartLine, st) ==
     [ node |-> [ type |-> "table",
                  lineStart |-> slideStartLine + startIdx,
                  lineEnd |-> slideStartLine + st.endIdx - 1,
                  slideIndex |-> slideIndex,
                  content |-> JoinLines(st.tableLines),
                  metadata |-> [columns |-> st.columns, rows |-> Max(0, st.rows - 1)] ],
       endIndex |-> st.endIdx - 1 ]

parseTable(lines, startIdx, slideIndex, slideStartLine) ==
  TableResult(startIdx, slideIndex, slideStartLine,
              TableLoop(lines,
                        [ endIdx |-> startIdx, tableLines |-> <<>>, columns |-> 0,
                          rows |-> 0 ]))

\* the loop of parseBlockquote (lines 636-649)
RECURSIVE BlockquoteLoop(_, _)
BlockquoteLoop(lines, st) ==
  IF st.endIdx >= Len(lines) THEN st
  ELSE
    LET line == At(lines, st.endIdx)
    IN IF StartsWith(Trim(line), <<">">>)
       THEN BlockquoteLoop(lines,
              [ endIdx |-> st.endIdx + 1,
                quoteLines |-> Append(st.quoteLines, line),
                maxDepth |-> Max(st.maxDepth, LeadingIn(line, {">"})) ])
       ELSE IF /\ Trim(line) = <<>>
               /\ st.endIdx + 1 < Len(lines)
               /\ StartsWith(Trim(At(lines, st.endIdx + 1)), <<">">>)
       THEN BlockquoteLoop(lines,
              [st EXCEPT !.endIdx = st.endIdx + 1,
                         !.quoteLines = Append(st.quoteLines, line)])
       ELSE st

\* the value parseBlockquote returns (lines 651-663), st being its locals after
\* the loop
BlockquoteResult(startIdx, slideIndex, slideStartLine, st) ==
     [ node |-> [ type |-> "blockquote",
                  lineStart |-> slideStartLine + startIdx,
                  lineEnd |-> slideStartLine + st.endIdx - 1,
                  slideIndex |-> slideIndex,
                  content |-> JoinLines(st.quoteLines),
                  metadata |-> [depth |-> st.maxDepth] ],
       endIndex |-> st.endIdx - 1 ]

parseBlockquote(lines, startIdx, slideIndex, slideStartLine) ==
  BlockquoteResult(startIdx, slideIndex, slideStartLine,
                   BlockquoteLoop(lines,
                                  [ endIdx |-> startIdx, quoteLines |-> <<>>,
                                    maxDepth |-> 0 ]))

\* the condition of the loop of parseParagraph (lines 680-690)
IsParagraphLine(line) ==
  /\ Trim(line) # <<>>
  /\ ~StartsWith(line, <<"#">>)
  /\ ~ListPattern(line, FALSE)
  /\ ~ListPattern(line, TRUE)
  /\ ~StartsWith(line, Fence)
  /\ ~StartsWith(line, <<">">>)
  /\ ~StartsWith(line, <<"|">>)
  /\ ~StartsWith(line, <<"<">>)
  /\ ~StartsWith(line, <<":", ":">>)

RECURSIVE ParagraphEnd(_, _)
ParagraphEnd(lines, endIdx) ==
  IF endIdx < Len(lines) /\ IsParagraphLine(At(lines, endIdx))
  THEN ParagraphEnd(lines, endIdx + 1)
  ELSE endIdx

NoNode == [isNull |-> TRUE]

\* the value parseParagraph returns (lines 698-716), endIdx being where its loop
\* stopped
ParagraphResult(lines, startIdx, slideIndex, slideStartLine, endIdx) ==
  LET paragraphLines == SubSeq(lines, startIdx + 1, endIdx)
      text == Trim(JoinWith(paragraphLines, <<" ">>))
  IN IF Len(paragraphLines) = 0 THEN [node |-> NoNode, endIndex |-> startIdx]
     ELSE [ node |-> [ type |-> "paragraph",
                       lineStart |-> slideStartLine + startIdx,
                       lineEnd |-> slideStartLine + endIdx - 1,
                       slideIndex |-> slideIndex,
                       content |-> JoinLines(paragraphLines),
                       text |-> text,
                       charCount |-> Len(text),
                       metadata |-> <<>> ],
            endIndex |-> endIdx - 1 ]

parseParagraph(lines, startIdx, slideIndex, slideStartLine) ==
  ParagraphResult(lines, startIdx, slideIndex, slideStartLine,
                  ParagraphEnd(lines, startIdx))

(* ---- extractContentNodes ---- *)
SingleLineNode(type, lineNumber, slideIndex, line, metadata) ==
  [ type |-> type, lineStart |-> lineNumber, lineEnd |-> lineNumber,
    slideIndex |-> slideIndex, content |-> line, metadata |-> metadata ]

HeadingNode(lineNumber, slideIndex, line, match) ==
  [ type |-> "heading", level |-> match.level,
    lineStart |-> lineNumber, lineEnd |-> lineNumber,
    slideIndex |-> slideIndex, content |-> line, text |-> match.text,
    charCount |-> Len(match.text), metadata |-> [level |-> match.level] ]

\* the scan goes on at the sub-parser's last line (the mutant)
ResumeAtEnd(st, result) ==
  [ i |-> result.endIndex,
    nodes |-> Append(st.nodes, result.node),
    warnings |-> st.warnings ]

\* nodes.push(result.node) followed by i = result.endIndex + 1
Resume(st, result) ==
  [ i |-> result.endIndex + 1,
    nodes |-> Append(st.nodes, result.node),
    warnings |-> st.warnings ]

\* one iteration of the while loop (lines 327-459) at index st.i
ExtractLine(lines, slideIndex, slideStartLine, st) ==
  LET i == st.i
      line == At(lines, i)
      lineNumber == slideStartLine + i
      push(node) == [st EXCEPT !.i = i + 1, !.nodes = Append(st.nodes, node)]
  IN IF HeadingMatch(line).matched
       THEN push(HeadingNode(lineNumber, slideIndex, line, HeadingMatch(line)))
     ELSE IF StartsWith(Trim(line), Fence)
       THEN LET result == parseCodeBlock(lines, i, slideIndex, slideStartLine, st.warnings)
            IN [ i |-> result.endIndex + 1,
                 nodes |-> Append(st.nodes, result.node),
                 warnings |-> result.warnings ]
     ELSE IF ListItemMatch(line, FALSE)
       THEN Resume(st, parseList(lines, i, slideIndex, slideStartLine, FALSE))
     ELSE IF ListItemMatch(line, TRUE)
       THEN Resume(st, parseList(lines, i, slideIndex, slideStartLine, TRUE))
     ELSE IF ImageMatch(line).matched
       THEN push(SingleLineNode("image", lineNumber, slideIndex, line,
                   [alt |-> ImageMatch(line).alt, src |-> ImageMatch(line).src]))
     ELSE IF Includes(line, "|") /\ StartsWith(Trim(line), <<"|">>)
       THEN Resume(st, parseTable(lines, i, slideIndex, slideStartLine))
     ELSE IF StartsWith(Trim(line), <<">">>)
       THEN Resume(st, parseBlockquote(lines, i, slideIndex, slideStartLine))
     ELSE IF VClickMatch(line).matched
       THEN push(SingleLineNode("slidev-component", lineNumber, slideIndex, line,
                   [component |-> VClickMatch(line).component]))
     ELSE IF SlotMatch(line).matched
       THEN push(SingleLineNode("slot-separator", lineNumber, slideIndex, line,
                   [slotName |-> SlotMatch(line).slotName]))
     ELSE IF Trim(line) # <<>> /\ ~StartsWith(Trim(line), <<"<","!","-","-">>)
       THEN LET result == parseParagraph(lines, i, slideIndex, slideStartLine)
            IN IF result.node = NoNode THEN [st EXCEPT !.i = result.endIndex + 1]
               ELSE Resume(st, result)
     ELSE [st EXCEPT !.i = i + 1]

RECURSIVE ExtractLoop(_, _, _, _)
ExtractLoop(lines, slideIndex, slideStartLine, st) ==
  IF st.i < Len(lines)
  THEN ExtractLoop(lines, slideIndex, slideStartLine,
                   ExtractLine(lines, slideIndex, slideStartLine, st))
  ELSE st

\* the nodes of a slide, and this.warnings after the scan.  The scan starts
\* behind the closing '---' of the slide's frontmatter (lines 316-324).
Extracted(st) == [nodes |-> st.nodes, warnings |-> st.warnings]

ExtractFrom(lines, slideIndex, slideStartLine, pushed) ==
  Extracted(ExtractLoop(lines, slideIndex, slideStartLine,
                        [i |-> FrontmatterEnd(lines), nodes |-> <<>>, warnings |-> pushed]))

extractContentNodes(content, slideIndex, slideStartLine, pushed) ==
  ExtractFrom(SplitLines(content), slideIndex, slideStartLine, pushed)

\* content.split(/\s+/).filter((w) => w).length
RECURSIVE WordCount(_)
WordCount(s) ==
  LET t == TrimStart(s)
      gaps == { k \in 1..Len(t) : t[k] \in Whitespace }
      wordEnd == IF gaps = {} THEN Len(t) + 1
                 ELSE CHOOSE k \in gaps : \A j \in gaps : k <= j
  IN IF t = <<>> THEN 0 ELSE 1 + WordCount(SubSeq(t, wordEnd, Len(t)))

CountOfType(nodes, type) == Cardinality({ k \in 1..Len(nodes) : nodes[k].type = type })

calculateMetrics(content, nodes) ==
  [ totalCharacters |-> Len(content),
    wordCount |-> WordCount(content),
    elementCounts |-> [ headings |-> CountOfType(nodes, "heading"),
                        lists |-> CountOfType(nodes, "list"),
                        codeBlocks |-> CountOfType(nodes, "code-block"),
                        images |-> CountOfType(nodes, "image"),
                        tables |-> CountOfType(nodes, "table") ] ]

(* ---- parseSlideContent and parsePresentation ---- *)
\* the text of a number, as the conversion to a property key writes it
NumberText(v) ==
  LET magnitude == IF v.n < 0 THEN 0 - v.n ELSE v.n
      whole == NaturalText(magnitude \div v.d)
      fraction == NaturalText(v.d + (magnitude % v.d))
  IN (IF v.n < 0 THEN <<"-">> ELSE <<>>)
       \o whole
       \o (IF v.d = 1 THEN <<>> ELSE <<".">> \o Tail(fraction))

\* LAYOUT_DEFINITIONS[layout]: the property key of a value that is not a string
\* is its text
PropertyKey(value) ==
  CASE value.t = "string" -> value.v
    [] value.t = "number" -> NumberText(value)
    [] value.t = "boolean" -> IF value.v THEN <<"t","r","u","e">> ELSE <<"f","a","l","s","e">>
    [] value.t = "object" -> <<"[","o","b","j","e","c","t"," ","O","b","j","e","c","t","]">>

\* a canvas width in whole pixels
WholePixels(value) == CASE value.t = "number" /\ value.d = 1 -> value.n

SlideThrew(pushed) == [threw |-> TRUE, warnings |-> pushed]

\* parseSlideContent, from its last statement back to its first; each operator
\* is given the locals computed before it.  The TypeError of aspectRatio.split
\* and the one of a layout definition that cannot be called are raised before
\* the nodes are extracted; the one of layoutArea.slots[0] on an object without
\* slots (line 248) after it.

\* lines 240-255
SlideContent(slide, index, layout, slideFrontmatter, area, extracted) ==
  IF ~area.hasSlots THEN SlideThrew(extracted.warnings)
  ELSE [ threw |-> FALSE,
         warnings |-> extracted.warnings,
         slide |-> [ index |-> index,
                     rawContent |-> slide.content,
                     layout |-> layout,
                     contentNodes |-> extracted.nodes,
                     contentArea |->
                       [ width |-> IF Len(area.slots) > 0
                                   THEN area.slots[1].width ELSE 868,
                         height |-> IF Len(area.slots) > 0
                                    THEN area.slots[1].height ELSE 472 ],
                     metrics |-> calculateMetrics(slide.content, extracted.nodes),
                     frontmatter |-> slideFrontmatter,
                     lineStart |-> slide.startLine,
                     lineEnd |-> slide.endLine ] ]

\* line 237
SlideInArea(slide, index, layout, slideFrontmatter, area, pushed) ==
  IF area.threw THEN SlideThrew(pushed)
  ELSE SlideContent(slide, index, layout, slideFrontmatter, area,
                    extractContentNodes(slide.content, index, slide.startLine, pushed))

\* line 234
SlideOnCanvas(slide, index, layout, slideFrontmatter, canvasWidth, canvasHeight, pushed) ==
  IF canvasHeight.threw THEN SlideThrew(pushed)
  ELSE SlideInArea(slide, index, layout, slideFrontmatter,
                   getLayoutContentArea(PropertyKey(layout), WholePixels(canvasWidth),
                                        canvasHeight.height),
                   pushed)

\* line 233
SlideOfWidth(slide, index, globalConfig, layout, slideFrontmatter, canvasWidth, pushed) ==
  SlideOnCanvas(slide, index, layout, slideFrontmatter, canvasWidth,
                calculateCanvasHeight(canvasWidth,
                                      Coalesce(globalConfig.aspectRatio, JSString(<<"1","6","/","9">>))),
                pushed)

\* lines 229-232
SlideWithFrontmatter(slide, index, globalConfig, slideFrontmatter, pushed) ==
  SlideOfWidth(slide, index, globalConfig,
               Coalesce(GetProperty(slideFrontmatter, <<"l","a","y","o","u","t">>), JSString(<<"d","e","f","a","u","l","t">>)),
               slideFrontmatter,
               Coalesce(globalConfig.canvasWidth, JSNumber(DEFAULT_CANVAS_WIDTH, 1)),
               pushed)

parseSlideContent(slide, index, globalConfig, pushed) ==
  SlideWithFrontmatter(slide, index, globalConfig,
                       extractSlideFrontmatter(slide.content), pushed)

\* parsedSlides.map(...): slide by slide, index from 0; a throw ends the map
RECURSIVE MapSlides(_, _, _, _)

\* what the map holds once the slide at index is done
Mapped(parsedSlides, index, globalConfig, acc, one) ==
  IF one.threw THEN [threw |-> TRUE, slides |-> acc.slides, warnings |-> one.warnings]
  ELSE MapSlides(parsedSlides, index + 1, globalConfig,
                 [ threw |-> FALSE, slides |-> Append(acc.slides, one.slide),
                   warnings |-> one.warnings ])

MapSlides(parsedSlides, index, globalConfig, acc) ==
  IF index >= Len(parsedSlides) THEN acc
  ELSE Mapped(parsedSlides, index, globalConfig, acc,
              parseSlideContent(At(parsedSlides, index), index, globalConfig,
                                acc.warnings))

NoSlidesYet == [threw |-> FALSE, slides |-> <<>>, warnings |-> <<>>]

\* how a call completes, and the warnings field it leaves in the parser
ParsedPresentation(globalConfig, mapped, totalLines) ==
  IF mapped.threw THEN [threw |-> TRUE, warnings |-> mapped.warnings]
  ELSE [ threw |-> FALSE,
         globalConfig |-> globalConfig,
         slides |-> mapped.slides,
         warnings |-> mapped.warnings,
         totalLines |-> totalLines ]

\* lines 92-97, globalConfig being computed
PresentationWith(md, globalConfig) ==
  ParsedPresentation(globalConfig,
                     MapSlides(parseSlides(md), 0, globalConfig, NoSlidesYet),
                     Len(SplitLines(md)))

parsePresentation(md) == PresentationWith(md, extractGlobalConfig(md))

(***************************************************************************)
(* OverflowDetector: the three detectors that inspect the rendered page     *)
(*                                                                         *)
(* The page.  document.body holds a sequence of nodes in document order.   *)
(* A node of kind "page" is an element of class slidev-page: active says    *)
(* that it also has the class active, number is the N of a class            *)
(* slidev-page-N and dataNo the N of data-slidev-no (-1: none), rect is its *)
(* bounding rectangle, and layout says that it has a descendant of class    *)
(* slidev-layout, whose descendants are elements.  A node of kind "layout"  *)
(* is an element of class slidev-layout outside every slide page.  The      *)
(* layout element of a node is named by the node's position.                *)
(***************************************************************************)
NoNumber == 0 - 1

NoElement == 0

Rect(left, top, right, bottom) == [left |-> left, top |-> top, right |-> right, bottom |-> bottom]

\* DOMRect.width and DOMRect.height
Width(rect) == rect.right - rect.left

Height(rect) == rect.bottom - rect.top

\* document.querySelector: of the nodes that match, the first in document order
FirstNode(found) ==
  IF found = {} THEN NoElement ELSE CHOOSE k \in found : \A j \in found : k <= j

IsPage(node) == node.kind = "page"

\* '.slidev-page.active'
IsActivePage(node) == IsPage(node) /\ node.active

\* '.slidev-layout', as a descendant of the node or as the node itself
HasLayout(node) == node.layout

\* the number behind the first '/' that a digit follows: pathname.match(/\/(\d+)/)
RECURSIVE PathnameMatch(_, _)
PathnameMatch(pathname, from) ==
  IF from >= Len(pathname) THEN NoMatch
  ELSE IF pathname[from] = "/" /\ pathname[from + 1] \in Digits
    THEN LET rest == SubSeq(pathname, from + 1, Len(pathname))
         IN [matched |-> TRUE, digits |-> SubSeq(rest, 1, LeadingIn(rest, Digits))]
  ELSE PathnameMatch(pathname, from + 1)

\* hash.match(/#?(\d+)/): the first run of digits, with or without a '#' before it
RECURSIVE HashMatch(_, _)
HashMatch(hash, from) ==
  IF from > Len(hash) THEN NoMatch
  ELSE IF hash[from] \in Digits
    THEN LET rest == SubSeq(hash, from, Len(hash))
         IN [matched |-> TRUE, digits |-> SubSeq(rest, 1, LeadingIn(rest, Digits))]
  ELSE HashMatch(hash, from + 1)

\* window.location.pathname.match(...) || window.location.hash.match(...)
urlMatch(location) ==
  IF PathnameMatch(location.pathname, 1).matched THEN PathnameMatch(location.pathname, 1)
  ELSE HashMatch(location.hash, 1)

\* querySelector(.slidev-page-N) || querySelector([data-slidev-no="N"])
NumberedPage(nodes, slideNum) ==
  LET byClass == FirstNode({ k \in 1..Len(nodes) : nodes[k].number = slideNum })
  IN IF byClass # NoElement THEN byClass
     ELSE FirstNode({ k \in 1..Len(nodes) : nodes[k].dataNo = slideNum })

\* the second step of the resolution, when no slide has the active marker
ByAddress(pg) ==
  IF urlMatch(pg.location).matched
  THEN NumberedPage(pg.nodes, DigitsValue(urlMatch(pg.location).digits))
  ELSE NoElement

\* the third step: the first slide whose rectangle has a width and a height
FirstSizedPage(nodes) ==
  FirstNode({ k \in 1..Len(nodes) :
                IsPage(nodes[k]) /\ Width(nodes[k].rect) > 0 /\ Height(nodes[k].rect) > 0 })

\* the three steps that the three detectors share; each step is taken when
\* the ones before it found nothing
ThreeSteps(pg) ==
  LET marked == FirstNode({ k \in 1..Len(pg.nodes) : IsActivePage(pg.nodes[k]) })
  IN IF marked # NoElement THEN marked
     ELSE IF ByAddress(pg) # NoElement THEN ByAddress(pg)
     ELSE FirstSizedPage(pg.nodes)

\* activeSlidePage of detectTextOverflow and of detectScrollbar
activeSlidePage(pg) == ThreeSteps(pg)

\* activeSlidePage of detectElementOverflow, which has a fourth step
activeSlidePageOrFirst(pg) ==
  IF ThreeSteps(pg) # NoElement THEN ThreeSteps(pg)
  ELSE FirstNode({ k \in 1..Len(pg.nodes) : IsPage(pg.nodes[k]) })

\* slideLayout of detectTextOverflow and of detectScrollbar:
\* activeSlidePage?.querySelector('.slidev-layout') || document.querySelector('.slidev-layout')
slideLayout(pg) ==
  LET active == activeSlidePage(pg)
  IN IF active # NoElement /\ HasLayout(pg.nodes[active]) THEN active
     ELSE FirstNode({ k \in 1..Len(pg.nodes) : HasLayout(pg.nodes[k]) })

\* slideLayout of detectElementOverflow: activeSlidePage.querySelector('.slidev-layout')
slideLayoutOfPage(pg) ==
  LET active == activeSlidePageOrFirst(pg)
  IN IF active # NoElement /\ HasLayout(pg.nodes[active]) THEN active ELSE NoElement

(* ---- the elements of a layout ---- *)
\* An element of slideLayout.querySelectorAll('*'), in document order: parent
\* is the position of its parent among the elements (0: the layout element
\* itself), classList its classes in the order of className, style its
\* computed style, and the scroll and client sizes and rect its geometry.
\* A selector of config.exclude is a class selector, named by its class.
VClickHidden == "slidev-vclick-hidden"

\* the classes of the layout element and of the slide page it lies in, which
\* closest() reaches behind the elements
OuterClasses(node) ==
  IF IsPage(node) THEN {"slidev-layout", "slidev-page"} ELSE {"slidev-layout"}

InClassList(el, class) == \E k \in 1..Len(el.classList) : el.classList[k] = class

\* element.matches(selector)
ElementMatches(el, selector) == InClassList(el, selector)

\* the element and its ancestors among the elements, the element first
RECURSIVE SelfAndAncestors(_, _)
SelfAndAncestors(elements, k) ==
  IF k = 0 THEN <<>> ELSE <<k>> \o SelfAndAncestors(elements, elements[k].parent)

\* element.closest(selector) is not null
Closest(node, k, selector) ==
  \/ \E a \in 1..Len(SelfAndAncestors(node.elements, k)) :
       ElementMatches(node.elements[SelfAndAncestors(node.elements, k)[a]], selector)
  \/ selector \in OuterClasses(node)

Query(k, name) == [element |-> k, query |-> name]

\* the loop over exclude with element.matches alone, without element.closest
RECURSIVE ExcludeLoopSelfOnly(_, _, _, _)
ExcludeLoopSelfOnly(node, k, exclude, queries) ==
  IF exclude = <<>> THEN [skipped |-> FALSE, queries |-> queries]
  ELSE IF ElementMatches(node.elements[k], Head(exclude))
    THEN [skipped |-> TRUE, queries |-> Append(queries, Query(k, "matches"))]
  ELSE ExcludeLoopSelfOnly(node, k, Tail(exclude), Append(queries, Query(k, "matches")))

\* the loop over exclude at the head of each forEach callback: the queries it
\* makes, and whether it returned from the callback
RECURSIVE ExcludeLoop(_, _, _, _)
ExcludeLoop(node, k, exclude, queries) ==
  IF exclude = <<>> THEN [skipped |-> FALSE, queries |-> queries]
  ELSE IF ElementMatches(node.elements[k], Head(exclude))
    THEN [skipped |-> TRUE, queries |-> Append(queries, Query(k, "matches"))]
  ELSE IF Closest(node, k, Head(exclude))
    THEN [skipped |-> TRUE,
          queries |-> queries \o <<Query(k, "matches"), Query(k, "closest")>>]
  ELSE ExcludeLoop(node, k, Tail(exclude),
                   queries \o <<Query(k, "matches"), Query(k, "closest")>>)

\* the derived selector: the tag, then '#id', or else '.' and the classes
\* joined by '.' (className.trim().split(/\s+/) of a className that holds a class)
Selector(el) ==
  IF el.id # "" THEN <<el.tag, "#", el.id>>
  ELSE IF el.classList # <<>>
    THEN <<el.tag>> \o [i \in 1..(2 * Len(el.classList)) |->
                          IF i % 2 = 1 THEN "." ELSE el.classList[i \div 2]]
  ELSE <<el.tag>>

\* the element descriptor of a scrollbar issue; the other two add to it.  An
\* empty class or id stands for undefined (className || undefined).
ElementInfo(el) ==
  [tag |-> el.tag, class |-> el.classList, id |-> el.id, selector |-> Selector(el)]

(* ---- detectTextOverflow ---- *)
Hidden == "hidden"

\* computed.overflow: the shorthand of the two axes
OverflowShorthand(style) ==
  IF style.overflowX = style.overflowY THEN <<style.overflowX>>
  ELSE <<style.overflowX, style.overflowY>>

\* lines 94-98
ClipsText(style) ==
  \/ OverflowShorthand(style) = <<Hidden>>
  \/ style.overflowX = Hidden
  \/ style.overflowY = Hidden
  \/ style.textOverflow = "ellipsis"

\* element.textContent?.substring(0, 50) || undefined (empty: undefined)
TextPreview(el) == SubSeq(el.text, 1, Min(50, Len(el.text)))

\* lines 122-139
TextOverflowIssue(k, el, overflowX, overflowY) ==
  [type |-> "text-overflow",
   at |-> k,   \* the element the issue is about
   element |-> [tag |-> el.tag, class |-> el.classList, id |-> el.id,
                selector |-> Selector(el), text |-> TextPreview(el)],
   details |-> [containerWidth |-> el.clientWidth, containerHeight |-> el.clientHeight,
                contentWidth |-> el.scrollWidth, contentHeight |-> el.scrollHeight,
                overflowX |-> overflowX, overflowY |-> overflowY]]

\* the report made from the threshold on, not above it
TextOverflowMeasuredAtThreshold(k, el, threshold, st) ==
  LET overflowX == Max(0, el.scrollWidth - el.clientWidth)
      overflowY == Max(0, el.scrollHeight - el.clientHeight)
  IN [results |-> IF overflowX >= threshold \/ overflowY >= threshold
                  THEN Append(st.results, TextOverflowIssue(k, el, overflowX, overflowY))
                  ELSE st.results,
      queries |-> Append(st.queries, Query(k, "scrollSize")),
      layout |-> st.layout]

\* lines 102-140, for an element that clips
TextOverflowMeasured(k, el, threshold, st) ==
  LET overflowX == Max(0, el.scrollWidth - el.clientWidth)
      overflowY == Max(0, el.scrollHeight - el.clientHeight)
  IN [results |-> IF overflowX > threshold \/ overflowY > threshold
                  THEN Append(st.results, TextOverflowIssue(k, el, overflowX, overflowY))
                  ELSE st.results,
      queries |-> Append(st.queries, Query(k, "scrollSize")),
      layout |-> st.layout]

\* lines 93-140, excluded being how the loop over exclude ended
TextOverflowChecked(k, el, threshold, st, excluded) ==
  IF excluded.skipped THEN [st EXCEPT !.queries = excluded.queries]
  ELSE IF ~ClipsText(el.style)
    THEN [st EXCEPT !.queries = Append(excluded.queries, Query(k, "getComputedStyle"))]
  ELSE TextOverflowMeasured(k, el, threshold,
         [st EXCEPT !.queries = Append(excluded.queries, Query(k, "getComputedStyle"))])

\* the forEach callback of detectTextOverflow (lines 85-141) on element k
TextOverflowCallback(node, k, cfg, st) ==
  TextOverflowChecked(k, node.elements[k], cfg.threshold, st,
                      ExcludeLoop(node, k, cfg.exclude, st.queries))

RECURSIVE TextOverflowEach(_, _, _, _)
TextOverflowEach(node, k, cfg, st) ==
  IF k > Len(node.elements) THEN st
  ELSE TextOverflowEach(node, k + 1, cfg, TextOverflowCallback(node, k, cfg, st))

NothingDetected(layout) == [layout |-> layout, results |-> <<>>, queries |-> <<>>]

\* lines 81-143, layout being slideLayout
TextOverflowIn(pg, cfg, layout) ==
  IF layout = NoElement THEN NothingDetected(NoElement)
  ELSE TextOverflowEach(pg.nodes[layout], 1, cfg, NothingDetected(layout))

\* the function page.evaluate runs in the page; layout names the layout element
\* it inspected
detectTextOverflow(pg, cfg) == TextOverflowIn(pg, cfg, slideLayout(pg))

(* ---- detectElementOverflow ---- *)
\* style.display, style.visibility, style.opacity of the element itself, and
\* its class list and closest('.slidev-vclick-hidden') (lines 161-170)
SelfVisible(node, k) ==
  LET el == node.elements[k]
  IN /\ el.style.display # "none"
     /\ el.style.visibility # Hidden
     /\ el.style.opacity # "0"
     /\ ~InClassList(el, VClickHidden)
     /\ ~Closest(node, k, VClickHidden)

\* the ancestors the while loop of isElementVisible looks at (lines 173-181):
\* at most three, nearest first.  Behind the elements come the layout element
\* and the slide page, which are shown.
ParentsLookedAt(node, k) ==
  LET above == Tail(SelfAndAncestors(node.elements, k))
  IN SubSeq(above, 1, Min(3, Len(above)))

ParentsVisible(node, k) ==
  \A a \in 1..Len(ParentsLookedAt(node, k)) :
    LET parent == node.elements[ParentsLookedAt(node, k)[a]]
    IN parent.style.opacity # "0" /\ parent.style.visibility # Hidden

isElementVisible(node, k) == SelfVisible(node, k) /\ ParentsVisible(node, k)

\* the style queries of isElementVisible: on the element, then on its parents
\* for as long as the loop runs
RECURSIVE ParentQueries(_, _)
ParentQueries(node, parents) ==
  IF parents = <<>> THEN <<>>
  ELSE LET parent == node.elements[Head(parents)]
       IN IF parent.style.opacity = "0" \/ parent.style.visibility = Hidden
          THEN <<Query(Head(parents), "getComputedStyle")>>
          ELSE <<Query(Head(parents), "getComputedStyle")>> \o ParentQueries(node, Tail(parents))

VisibleQueries(node, k) ==
  IF SelfVisible(node, k)
  THEN <<Query(k, "getComputedStyle")>> \o ParentQueries(node, ParentsLookedAt(node, k))
  ELSE <<Query(k, "getComputedStyle")>>

\* the four differences, not clamped at 0
DirectionalOverflowSigned(slideBounds, rect) ==
  [left |-> slideBounds.left - rect.left,
   top |-> slideBounds.top - rect.top,
   right |-> rect.right - slideBounds.right,
   bottom |-> rect.bottom - slideBounds.bottom]

\* lines 254-257
DirectionalOverflow(slideBounds, rect) ==
  [left |-> Max(0, slideBounds.left - rect.left),
   top |-> Max(0, slideBounds.top - rect.top),
   right |-> Max(0, rect.right - slideBounds.right),
   bottom |-> Max(0, rect.bottom - slideBounds.bottom)]

\* lines 277-307; src is set for an img only
ElementOverflowIssue(k, el, slideBounds, overflow) ==
  [type |-> "element-overflow",
   at |-> k,
   element |-> [tag |-> el.tag, class |-> el.classList, id |-> el.id,
                selector |-> Selector(el), src |-> IF el.tag = "img" THEN el.src ELSE ""],
   details |-> [slideBounds |-> slideBounds,
                elementBounds |-> Rect(el.rect.left, el.rect.top, el.rect.right, el.rect.bottom),
                overflow |-> overflow]]

\* lines 254-308, overflow being the four values
ElementOverflowReported(k, el, slideBounds, threshold, st, overflow) ==
  IF \/ overflow.left > threshold
     \/ overflow.top > threshold
     \/ overflow.right > threshold
     \/ overflow.bottom > threshold
  THEN [st EXCEPT !.results = Append(st.results, ElementOverflowIssue(k, el, slideBounds, overflow))]
  ELSE st

\* lines 242-308, for an element that is not excluded
ElementOverflowMeasured(node, k, slideBounds, threshold, st) ==
  LET el == node.elements[k]
  IN IF ~isElementVisible(node, k)
     THEN [st EXCEPT !.queries = st.queries \o VisibleQueries(node, k)]
     ELSE IF Width(el.rect) = 0 /\ Height(el.rect) = 0
       THEN [st EXCEPT !.queries = st.queries \o VisibleQueries(node, k)
                                     \o <<Query(k, "getBoundingClientRect")>>]
     ELSE ElementOverflowReported(k, el, slideBounds, threshold,
            [st EXCEPT !.queries = st.queries \o VisibleQueries(node, k)
                                     \o <<Query(k, "getBoundingClientRect")>>],
            DirectionalOverflow(slideBounds, el.rect))

\* the forEach callback of detectElementOverflow (lines 234-309) on element k
ElementOverflowCallback(node, k, slideBounds, cfg, st, excluded) ==
  IF excluded.skipped THEN [st EXCEPT !.queries = excluded.queries]
  ELSE ElementOverflowMeasured(node, k, slideBounds, cfg.threshold,
                               [st EXCEPT !.queries = excluded.queries])

RECURSIVE ElementOverflowEach(_, _, _, _, _)
ElementOverflowEach(node, k, slideBounds, cfg, st) ==
  IF k > Len(node.elements) THEN st
  ELSE ElementOverflowEach(node, k + 1, slideBounds, cfg,
         ElementOverflowCallback(node, k, slideBounds, cfg, st,
                                 ExcludeLoop(node, k, cfg.exclude, st.queries)))

\* lines 217-311, active being activeSlidePage after the four steps
ElementOverflowIn(pg, cfg, active) ==
  IF active = NoElement THEN NothingDetected(NoElement)
  ELSE IF ~HasLayout(pg.nodes[active]) THEN NothingDetected(NoElement)
  ELSE ElementOverflowEach(pg.nodes[active], 1,
         Rect(pg.nodes[active].rect.left, pg.nodes[active].rect.top,
              pg.nodes[active].rect.right, pg.nodes[active].rect.bottom),
         cfg, NothingDetected(active))

detectElementOverflow(pg, cfg) == ElementOverflowIn(pg, cfg, activeSlidePageOrFirst(pg))

(* ---- detectScrollbar ---- *)
Scrolls(value) == value = "scroll" \/ value = "auto"

\* lines 378-385
ScrollbarType(showsVertical, showsHorizontal) ==
  IF showsVertical /\ showsHorizontal THEN "both"
  ELSE IF showsVertical THEN "vertical"
  ELSE "horizontal"

\* lines 398-406
ScrollbarOverflow(el, scrollbarType) ==
  IF scrollbarType = "vertical" THEN el.scrollHeight - el.clientHeight
  ELSE IF scrollbarType = "horizontal" THEN el.scrollWidth - el.clientWidth
  ELSE Max(el.scrollHeight - el.clientHeight, el.scrollWidth - el.clientWidth)

\* lines 408-424
ScrollbarIssue(k, el, scrollbarType) ==
  [type |-> "scrollbar",
   at |-> k,
   element |-> ElementInfo(el),
   details |-> [scrollbarType |-> scrollbarType,
                containerWidth |-> el.clientWidth, containerHeight |-> el.clientHeight,
                contentWidth |-> el.scrollWidth, contentHeight |-> el.scrollHeight,
                overflow |-> ScrollbarOverflow(el, scrollbarType)]]

\* lines 365-425, for an element that is not excluded
ScrollbarMeasured(k, el, st) ==
  LET showsVertical == el.scrollHeight > el.clientHeight /\ Scrolls(el.style.overflowY)
      showsHorizontal == el.scrollWidth > el.clientWidth /\ Scrolls(el.style.overflowX)
  IN [results |-> IF showsVertical \/ showsHorizontal
                  THEN Append(st.results,
                              ScrollbarIssue(k, el, ScrollbarType(showsVertical, showsHorizontal)))
                  ELSE st.results,
      queries |-> st.queries \o <<Query(k, "getComputedStyle"), Query(k, "scrollSize")>>,
      layout |-> st.layout]

\* the forEach callback of detectScrollbar (lines 357-426) on element k
ScrollbarCallback(k, el, st, excluded) ==
  IF excluded.skipped THEN [st EXCEPT !.queries = excluded.queries]
  ELSE ScrollbarMeasured(k, el, [st EXCEPT !.queries = excluded.queries])

RECURSIVE ScrollbarEach(_, _, _, _)
ScrollbarEach(node, k, cfg, st) ==
  IF k > Len(node.elements) THEN st
  ELSE ScrollbarEach(node, k + 1, cfg,
         ScrollbarCallback(k, node.elements[k], st, ExcludeLoop(node, k, cfg.exclude, st.queries)))

\* lines 353-428, layout being slideLayout
ScrollbarIn(pg, cfg, layout) ==
  IF layout = NoElement THEN NothingDetected(NoElement)
  ELSE ScrollbarEach(pg.nodes[layout], 1, cfg, NothingDetected(layout))

detectScrollbar(pg, cfg) == ScrollbarIn(pg, cfg, slideLayout(pg))

(* ---- detectIssues ---- *)
\* what one detector contributes to detectIssues: ran says that the
\* configuration asked for it
Detection(detector, ran, found) ==
  [detector |-> detector, ran |-> ran, layout |-> found.layout,
   results |-> found.results, queries |-> found.queries]

\* detectIssues runs the detectors one after the other, awaiting each
DetectTextOverflow ==
  /\ pc = "detectTextOverflow"
  /\ detected' = Append(detected,
       IF config.textOverflow
       THEN Detection("textOverflow", TRUE, detectTextOverflow(page, config))
       ELSE Detection("textOverflow", FALSE, NothingDetected(NoElement)))
  /\ pc' = "detectElementOverflow"
  /\ UNCHANGED <<scan, nav, session, markdown, slides, warnings, presentation, layoutArgs, layoutArea,
                 calibration, textArgs, measurement, estimates, page, config, mapper,
                 issue, attributed, heap, instance, returned, checker, options>>

DetectElementOverflow ==
  /\ pc = "detectElementOverflow"
  /\ detected' = Append(detected,
       IF config.elementOverflow
       THEN Detection("elementOverflow", TRUE, detectElementOverflow(page, config))
       ELSE Detection("elementOverflow", FALSE, NothingDetected(NoElement)))
  /\ pc' = "detectScrollbar"
  /\ UNCHANGED <<scan, nav, session, markdown, slides, warnings, presentation, layoutArgs, layoutArea,
                 calibration, textArgs, measurement, estimates, page, config, mapper,
                 issue, attributed, heap, instance, returned, checker, options>>

DetectScrollbar ==
  /\ pc = "detectScrollbar"
  /\ detected' = Append(detected,
       IF config.scrollbar
       THEN Detection("scrollbar", TRUE, detectScrollbar(page, config))
       ELSE Detection("scrollbar", FALSE, NothingDetected(NoElement)))
  /\ pc' = "detected"
  /\ UNCHANGED <<scan, nav, session, markdown, slides, warnings, presentation, layoutArgs, layoutArea,
                 calibration, textArgs, measurement, estimates, page, config, mapper,
                 issue, attributed, heap, instance, returned, checker, options>>

\* the issues detectIssues returns
Issues == detected[1].results \o detected[2].results \o detected[3].results

(***************************************************************************)
(* SlideMapper and the finders of MarkdownParser                           *)
(* A finder returns <<>> for null and <<found>> for a FoundElement; an      *)
(* issue's source is <<>> while it is undefined and <<source>> once set.    *)
(***************************************************************************)
FoundElement(line, lineEnd, content) ==
  [line |-> line, lineEnd |-> lineEnd, content |-> content]

\* String.prototype.includes: '' is included in every string
IncludesText(s, sub) ==
  \E k \in 0..(Len(s) - Len(sub)) : SubSeq(s, k + 1, k + Len(sub)) = sub

\* the first index of the loop "for (let i = 0; i < lines.length; i++)" that
\* returns, counted from 1; 0 when the loop ends without returning
FirstIndex(hits) ==
  IF hits = {} THEN 0 ELSE CHOOSE k \in hits : \A j \in hits : k <= j

\* the line the loop returns, with slideStartLine + i for i counted from 0
FoundLine(lines, hits, slideStartLine) ==
  IF hits = {} THEN <<>>
  ELSE LET k == FirstIndex(hits)
       IN <<FoundElement(slideStartLine + k - 1, slideStartLine + k - 1, lines[k])>>

\* lines[i].match(/!\[.*?\]\(.*?\)/)
ImageLine(line) ==
  \E a \in 1..Len(line), b \in 1..Len(line), c \in 1..Len(line) :
    /\ a + 2 <= b /\ b + 2 <= c
    /\ line[a] = "!" /\ line[a + 1] = "["
    /\ line[b] = "]" /\ line[b + 1] = "("
    /\ line[c] = ")"

\* lines[i].trim().startsWith('```')
IsFenceLine(line) == StartsWith(Trim(line), Fence)

\* the code-block branch: the first fence line opens, the next one closes and
\* returns; without a closing fence the loop ends and nothing is returned
FoundCodeBlock(lines, slideStartLine) ==
  LET fences == { k \in 1..Len(lines) : IsFenceLine(lines[k]) }
      codeBlockStart == FirstIndex(fences)
      closing == FirstIndex(fences \ { codeBlockStart })
  IN IF codeBlockStart = 0 \/ closing = 0 THEN <<>>
     ELSE <<FoundElement(slideStartLine + codeBlockStart - 1, slideStartLine + closing - 1,
                         JoinLines(SubSeq(lines, codeBlockStart, closing)))>>

\* MarkdownParser.findElementInSlide
findElementInSlide(slideContent, elementType, slideStartLine) ==
  LET lines == SplitLines(slideContent)
  IN IF elementType = "h1"
       THEN FoundLine(lines, { k \in 1..Len(lines) : StartsWith(lines[k], <<"#", " ">>) },
                      slideStartLine)
     ELSE IF elementType = "h2"
       THEN FoundLine(lines, { k \in 1..Len(lines) : StartsWith(lines[k], <<"#", "#", " ">>) },
                      slideStartLine)
     ELSE IF elementType = "img"
       THEN FoundLine(lines, { k \in 1..Len(lines) : ImageLine(lines[k]) }, slideStartLine)
     ELSE IF elementType \in {"code", "pre"}
       THEN FoundCodeBlock(lines, slideStartLine)
     ELSE <<>>

\* text.trim().substring(0, 50)
SearchText(text) ==
  LET trimmed == Trim(text) IN SubSeq(trimmed, 1, Min(50, Len(trimmed)))

\* MarkdownParser.findElementByText
findElementByText(slideContent, text, slideStartLine) ==
  LET lines == SplitLines(slideContent)
  IN FoundLine(lines, { k \in 1..Len(lines) : IncludesText(lines[k], SearchText(text)) },
               slideStartLine)

\* tagMap[issue.element.tag]: "" stands for undefined
tagMap(tag) ==
  IF tag \in {"h1", "h2", "h3", "img", "code", "div"} THEN tag
  ELSE IF tag = "pre" THEN "code"
  ELSE ""

\* slide.content.split('\n').slice(0, 3).join('\n') + '...'
SlideHead(slide) ==
  LET lines == SplitLines(slide.content)
  IN JoinLines(SubSeq(lines, 1, Min(3, Len(lines)))) \o <<".", ".", ".">>

\* the whole slide, with its first line only (the mutant)
EntireSlideFirstLine(slide) == FoundElement(slide.startLine, slide.startLine, SlideHead(slide))

\* "If not found, return entire slide"
EntireSlide(slide) == FoundElement(slide.startLine, slide.endLine, SlideHead(slide))

\* SlideMapper.findElementInSlide (private): by tag, then by text, then the slide
SlideMapper_findElementInSlide(slide, iss) ==
  LET searchType == tagMap(iss.element.tag)
      byTag == IF searchType # "" THEN findElementInSlide(slide.content, searchType, slide.startLine)
               ELSE <<>>
      byText == IF iss.element.text # <<>>
                THEN findElementByText(slide.content, iss.element.text, slide.startLine)
                ELSE <<>>
  IN IF byTag # <<>> THEN byTag[1]
     ELSE IF byText # <<>> THEN byText[1]
     ELSE EntireSlide(slide)

SourceInfo(file, element) ==
  [file |-> file, line |-> element.line, lineEnd |-> element.lineEnd, content |-> element.content]

\* the call that writes the source into the issue it was given (the mutant)
addSourceInfoInPlace(m, slideNumber, iss) ==
  LET slideIndex == slideNumber - 1
      set == [iss EXCEPT !.source =
                <<SourceInfo(m.sourceFile,
                             SlideMapper_findElementInSlide(m.slides[slideIndex + 1], iss))>>]
  IN IF slideIndex < 0 \/ slideIndex >= Len(m.slides)
     THEN [issue |-> iss, returned |-> iss, same |-> TRUE]
     ELSE [issue |-> set, returned |-> set, same |-> TRUE]

\* SlideMapper.addSourceInfo: the issue object it was given as it is after the
\* call, the value it returns, and whether that value is the same object
addSourceInfo(m, slideNumber, iss) ==
  LET slideIndex == slideNumber - 1
  IN IF slideIndex < 0 \/ slideIndex >= Len(m.slides)
     THEN [issue |-> iss, returned |-> iss, same |-> TRUE]
     ELSE [issue |-> iss,
           returned |-> [iss EXCEPT !.source =
                           <<SourceInfo(m.sourceFile,
                                        SlideMapper_findElementInSlide(m.slides[slideIndex + 1], iss))>>],
           same |-> FALSE]

\* loadProject looks for these in turn
possibleFiles == <<"slides.md", "index.md", "README.md">>

\* loadProject for a project whose slides.md can be read
LoadProject ==
  /\ pc = "loadProject"
  /\ mapper' = [slides |-> parseSlides(markdown), sourceFile |-> possibleFiles[1]]
  /\ pc' = "addSourceInfo"
  /\ UNCHANGED <<scan, nav, session, markdown, slides, warnings, presentation, layoutArgs, layoutArea, calibration,
                 textArgs, measurement, estimates, page, config, detected, issue, attributed,
                 heap, instance, returned, checker, options>>

AddSourceInfo ==
  /\ pc = "addSourceInfo"
  /\ \E slideNumber \in 0..(Len(mapper.slides) + 1) :
       LET done == addSourceInfo(mapper, slideNumber, issue)
       IN /\ issue' = done.issue
          /\ attributed' = [slideNumber |-> slideNumber, given |-> issue,
                            returned |-> done.returned, same |-> done.same]
  /\ pc' = "attributed"
  /\ UNCHANGED <<scan, nav, session, markdown, slides, warnings, presentation, layoutArgs, layoutArea, calibration,
                 textArgs, measurement, estimates, page, config, detected, mapper,
                 heap, instance, returned, checker, options>>

(***************************************************************************)
(* One EnhancedMarkdownParser instance called again and again               *)
(* heap holds the arrays that warnings fields refer to, by address; the     *)
(* instance and every returned presentation hold the address of an array.   *)
(***************************************************************************)
\* private warnings: string[] = []
NewParser == [heap |-> << <<>> >>, instance |-> [warnings |-> 1]]

\* a call that goes on with the array the instance already has (the mutant)
KeepWarnings(h, inst) == [heap |-> h, instance |-> inst]

\* this.warnings = []
ResetWarnings(h, inst) ==
  [heap |-> Append(h, <<>>), instance |-> [inst EXCEPT !.warnings = Len(h) + 1]]

\* this.warnings.push(...) for each warning of the call, in order
PushWarnings(h, inst, pushed) ==
  [h EXCEPT ![inst.warnings] = h[inst.warnings] \o pushed]

\* the object of lines 99-104; warnings is this.warnings, the array itself
PresentationOf(md, inst, done) ==
  IF done.threw THEN [input |-> md, threw |-> TRUE]
  ELSE [input |-> md,
        threw |-> FALSE,
        globalConfig |-> done.globalConfig,
        slides |-> done.slides,
        warnings |-> inst.warnings,
        totalLines |-> done.totalLines]

\* parsePresentation(md) on the instance inst in the heap h; done is what the
\* call computes and the warnings it pushes
parsePresentationOn(h, inst, md, done) ==
  LET reset == ResetWarnings(h, inst)
  IN [heap |-> PushWarnings(reset.heap, reset.instance, done.warnings),
      instance |-> reset.instance,
      returned |-> PresentationOf(md, reset.instance, done)]

(***************************************************************************)
(* SlidevChecker: the page range and the slides that are checked            *)
(* options.pages is <<>> when it is undefined and <<text>> when it is set.  *)
(***************************************************************************)
NotANumber == [nan |-> TRUE, value |-> 0]

\* parseInt(s, 10): white space, a sign, then the leading digits
parseIntRadix10(s) ==
  LET t == TrimStart(s)
      signed == t # <<>> /\ Head(t) \in {"-", "+"}
      u == IF signed THEN Tail(t) ELSE t
      n == LeadingIn(u, Digits)
      magnitude == DigitsValue(SubSeq(u, 1, n))
  IN IF n = 0 THEN NotANumber
     ELSE [nan |-> FALSE,
           value |-> IF signed /\ Head(t) = "-" THEN 0 - magnitude ELSE magnitude]

\* for (let i = start; i <= last; i++) pages.push(i)
RECURSIVE PushFrom(_, _, _)
PushFrom(pages, i, last) ==
  IF i <= last THEN PushFrom(Append(pages, i), i + 1, last) ELSE pages

\* lines 391-399: "Range specification"
RangePart(trimmed, totalSlides, pages) ==
  LET pieces == SplitOn(trimmed, "-")
      start == parseIntRadix10(Trim(pieces[1]))
      end == parseIntRadix10(Trim(pieces[2]))
  IN IF start.nan \/ end.nan THEN [threw |-> TRUE, pages |-> pages]
     ELSE [threw |-> FALSE,
           pages |-> PushFrom(pages, start.value, Min(end.value, totalSlides))]

\* lines 401-409: "Single page"
SinglePage(trimmed, totalSlides, pages) ==
  LET pageNum == parseIntRadix10(trimmed)
  IN IF pageNum.nan THEN [threw |-> TRUE, pages |-> pages]
     ELSE IF pageNum.value >= 1 /\ pageNum.value <= totalSlides
       THEN [threw |-> FALSE, pages |-> Append(pages, pageNum.value)]
     ELSE [threw |-> FALSE, pages |-> pages]

\* for (const part of parts)
RECURSIVE PartsLoop(_, _, _)
PartsLoop(parts, totalSlides, pages) ==
  IF parts = <<>> THEN [threw |-> FALSE, pages |-> pages]
  ELSE LET trimmed == Trim(Head(parts))
           one == IF Includes(trimmed, "-") THEN RangePart(trimmed, totalSlides, pages)
                  ELSE SinglePage(trimmed, totalSlides, pages)
       IN IF one.threw THEN one ELSE PartsLoop(Tail(parts), totalSlides, one.pages)

\* [...new Set(pages)].sort((a, b) => a - b)
RECURSIVE SortAscending(_)
SortAscending(S) ==
  IF S = {} THEN <<>>
  ELSE LET least == CHOOSE x \in S : \A y \in S : x <= y
       IN <<least>> \o SortAscending(S \ {least})

\* SlidevChecker.parsePageRange
parsePageRange(range, totalSlides) ==
  IF range = <<>> \/ range[1] = <<>>
  THEN [threw |-> FALSE, pages |-> [i \in 1..totalSlides |-> i]]
  ELSE LET done == PartsLoop(SplitOn(range[1], ","), totalSlides, <<>>)
       IN IF done.threw THEN done
          ELSE [threw |-> FALSE,
                pages |-> SortAscending({ done.pages[i] : i \in 1..Len(done.pages) })]

\* the quotient rounded down, plus one (the mutant)
ChunkSizePlusOne(length, chunkCount) == (length \div chunkCount) + 1

\* Math.ceil(array.length / chunkCount)
ChunkSize(length, chunkCount) == (length + chunkCount - 1) \div chunkCount

RECURSIVE ChunksFrom(_, _, _)
ChunksFrom(array, i, chunkSize) ==
  IF i < Len(array)
  THEN <<SubSeq(array, i + 1, Min(i + chunkSize, Len(array)))>>
         \o ChunksFrom(array, i + chunkSize, chunkSize)
  ELSE <<>>

\* SlidevChecker.chunkArray
chunkArray(array, chunkCount) == ChunksFrom(array, 0, ChunkSize(Len(array), chunkCount))

\* the loops that check slides: the workers of the parallel check, or the one
\* loop of the sequential check
Workers(pageRange, concurrency) ==
  IF concurrency > 1 THEN chunkArray(pageRange, concurrency) ELSE <<pageRange>>

\* performCheck up to its loops: the slide count, the page range, the workers
PerformCheck ==
  /\ pc = "performCheck"
  /\ \E done \in { parsePageRange(checker.pages, checker.totalSlides) } :
       IF checker.totalSlides = 0 \/ done.threw
       THEN /\ pc' = "threw"
            /\ UNCHANGED checker
       ELSE /\ pc' = "checking"
            /\ checker' = [checker EXCEPT !.pageRange = done.pages,
                                          !.workers = Workers(done.pages, checker.concurrency)]
  /\ UNCHANGED <<scan, nav, session, markdown, slides, warnings, presentation, layoutArgs, layoutArea, calibration,
                 textArgs, measurement, estimates, page, config, detected, mapper, issue,
                 attributed, heap, instance, returned, options>>

\* one turn of a loop "for (const slideNumber of ...)": navigateToSlide and
\* detectIssues for the next slide of one worker
CheckSlide ==
  /\ pc = "checking"
  /\ \E w \in 1..Len(checker.workers) :
       /\ checker.workers[w] # <<>>
       /\ checker' = [checker EXCEPT !.visited = Append(@, Head(checker.workers[w])),
                                     !.workers[w] = Tail(@)]
  /\ pc' = pc
  /\ UNCHANGED <<scan, nav, session, markdown, slides, warnings, presentation, layoutArgs, layoutArea, calibration,
                 textArgs, measurement, estimates, page, config, detected, mapper, issue,
                 attributed, heap, instance, returned, options>>

\* every loop has ended: aggregateResults and the reports
FinishCheck ==
  /\ pc = "checking"
  /\ \A w \in 1..Len(checker.workers) : checker.workers[w] = <<>>
  /\ pc' = "checked"
  /\ UNCHANGED <<scan, nav, session, checker, markdown, slides, warnings, presentation, layoutArgs, layoutArea,
                 calibration, textArgs, measurement, estimates, page, config, detected, mapper,
                 issue, attributed, heap, instance, returned, options>>

(***************************************************************************)
(* The command line: commander's defaults, the configuration file and the  *)
(* merge of the two                                                         *)
(* An option is <<>> while it is undefined and <<value>> once it has one.   *)
(***************************************************************************)
OptionNames == {"url", "pages", "threshold", "verbose", "browser"}

\* the third argument of .option(...): the value of an option that is not on
\* the command line; url and pages have none
OptionDefaults ==
  [url |-> <<>>,
   pages |-> <<>>,
   threshold |-> << <<"1">> >>,
   verbose |-> <<FALSE>>,
   browser |-> <<"chromium">>]

\* the options object commander hands to the action
CommanderOptions(argv) ==
  [o \in OptionNames |-> IF argv[o] # <<>> THEN argv[o] ELSE OptionDefaults[o]]

\* if (config.x) ...: undefined and '' are left out
IfTruthy(value) == IF value # <<>> /\ value[1] # "" THEN value ELSE <<>>

\* ConfigLoader.normalizeConfig
normalizeConfig(cfg) ==
  [url |-> IfTruthy(cfg.url),
   pages |-> IfTruthy(cfg.pages),
   threshold |-> cfg.threshold,
   verbose |-> cfg.verbose,
   browser |-> IfTruthy(cfg.browser)]

\* options.browser || config.browser || 'chromium'
BrowserOf(opts, cfg) ==
  IF IfTruthy(opts.browser) # <<>> THEN opts.browser
  ELSE IF IfTruthy(cfg.browser) # <<>> THEN cfg.browser
  ELSE <<"chromium">>

\* options.threshold ? parseInt(options.threshold, 10) : undefined
ThresholdOf(opts) ==
  IF opts.threshold # <<>> /\ opts.threshold[1] # <<>>
  THEN <<parseIntRadix10(opts.threshold[1]).value>>
  ELSE <<>>

\* const cliOptions = {...}
CliOptions(opts, cfg) ==
  [url |-> opts.url,
   pages |-> opts.pages,
   threshold |-> ThresholdOf(opts),
   verbose |-> opts.verbose,
   browser |-> BrowserOf(opts, cfg)]

\* ConfigLoader.mergeWithCliOptions: the entries of cliOptions that are not
\* undefined, over those of config
mergeWithCliOptions(cfg, cli) ==
  [o \in OptionNames |-> IF cli[o] # <<>> THEN cli[o] ELSE cfg[o]]

\* program.parse: commander reads the command line
ProgramParse ==
  /\ pc = "parse"
  /\ options' = [options EXCEPT !.options = CommanderOptions(options.argv)]
  /\ pc' = "action"
  /\ UNCHANGED <<scan, nav, session, markdown, slides, warnings, presentation, layoutArgs, layoutArea, calibration,
                 textArgs, measurement, estimates, page, config, detected, mapper, issue,
                 attributed, heap, instance, returned, checker>>

\* program.action: exits without a url or with an unknown browser, and
\* otherwise constructs the checker with the merged options
ProgramAction ==
  /\ pc = "action"
  /\ \E cfg \in { normalizeConfig(options.file) } :
       IF \/ IfTruthy(options.options.url) = <<>> /\ cfg.url = <<>>
          \/ BrowserOf(options.options, cfg)[1] \notin {"chromium", "firefox", "webkit"}
       THEN /\ pc' = "exit"
            /\ UNCHANGED options
       ELSE /\ pc' = "check"
            /\ options' = [options EXCEPT
                 !.checkerOptions = mergeWithCliOptions(cfg, CliOptions(options.options, cfg))]
  /\ UNCHANGED <<scan, nav, session, markdown, slides, warnings, presentation, layoutArgs, layoutArea, calibration,
                 textArgs, measurement, estimates, page, config, detected, mapper, issue,
                 attributed, heap, instance, returned, checker>>

(***************************************************************************)
(* PageNavigator.navigateToSlide                                            *)
(* The page is what it does to the calls made on it: rejects is a sequence  *)
(* of booleans, one for each call in the order the calls are made, TRUE     *)
(* when the call rejects (the page has crashed or been closed, a timeout);  *)
(* calls after the end of the sequence resolve.  calls is the log of the    *)
(* calls made, log the console.                                             *)
(***************************************************************************)
\* await this.page.<name>(...): the navigator after the call, and whether the
\* call rejected
PageCall(st, name) ==
  [rejected |-> st.rejects # <<>> /\ Head(st.rejects),
   st |-> [st EXCEPT !.rejects = IF st.rejects = <<>> THEN <<>> ELSE Tail(st.rejects),
                     !.calls = Append(st.calls, name)]]

\* lines 163-166
WaitTime(totalSlides) ==
  IF totalSlides > 10 THEN Max(300, 600 - ((totalSlides - 10) \div 10) * 50) ELSE 600

\* getTotalSlides: the count of the page, 0 when page.evaluate rejects
TotalSlidesOf(st, evaluated) == IF evaluated.rejected THEN 0 ELSE st.pageTotal

\* lines 154-157: this.totalSlides is read from the page unless it is known
WithTotalSlides(st) ==
  IF st.totalSlides # 0 THEN st
  ELSE LET evaluated == PageCall(st, "evaluate")
       IN [evaluated.st EXCEPT !.totalSlides = TotalSlidesOf(st, evaluated)]

\* lines 144-171: the try block of waitForSlideLoad, which swallows every error
SlideLoadTried(st) ==
  LET visible == PageCall(st, "waitForFunction")
      counted == WithTotalSlides(visible.st)
      waited == PageCall(counted, "waitForTimeout")
  IN IF visible.rejected THEN visible.st ELSE waited.st

\* lines 173-177: the additional wait, outside the try block
SlideLoadWaited(st) ==
  IF st.wait > 0
  THEN LET waited == PageCall(st, "waitForTimeout")
       IN [threw |-> waited.rejected, st |-> waited.st]
  ELSE [threw |-> FALSE, st |-> st]

\* PageNavigator.waitForSlideLoad
waitForSlideLoad(st) == SlideLoadWaited(SlideLoadTried(st))

\* lines 70-98: the try block of navigateToSlide
NavigationTried(st) ==
  LET reset == PageCall(st, "evaluate")
      go == PageCall(reset.st, "evaluate")
      loaded == waitForSlideLoad(go.st)
  IN IF reset.rejected THEN [threw |-> TRUE, st |-> reset.st]
     ELSE IF go.rejected THEN [threw |-> TRUE, st |-> go.st]
     ELSE loaded

\* lines 99-105: the catch block of navigateToSlide
NavigationRetried(st) ==
  LET warned == [st EXCEPT !.log = Append(st.log, "retrying")]
      backoff == PageCall(warned, "waitForTimeout(500)")
      loaded == waitForSlideLoad(backoff.st)
  IN IF backoff.rejected THEN [threw |-> TRUE, st |-> backoff.st]
     ELSE loaded

\* PageNavigator.navigateToSlide
navigateToSlide(st) ==
  LET tried == NavigationTried(st)
  IN IF tried.threw THEN NavigationRetried(tried.st) ELSE tried

NavigateToSlide ==
  /\ pc = "navigateToSlide"
  /\ \E done \in { navigateToSlide(nav) } :
       /\ nav' = done.st
       /\ pc' = IF done.threw THEN "threw" ELSE "navigated"
  /\ UNCHANGED <<scan, session, markdown, slides, warnings, presentation, layoutArgs, layoutArea,
                 calibration, textArgs, measurement, estimates, page, config, detected, mapper,
                 issue, attributed, heap, instance, returned, checker, options>>

(***************************************************************************)
(* SlidevChecker.check: the browser, the pages, the workers                 *)
(* A session (the Slidev process, the browser, a page) is "none" until it   *)
(* is opened, then "open" ("running" for the process), then "closed"        *)
(* ("stopped").  A call on a page that is not open rejects; a call on an    *)
(* open page may reject; close() resolves, as Playwright's close does also  *)
(* for a target that is already closed, and closing the browser closes      *)
(* every page of it.  The sequential loop is the one worker of a sequential *)
(* check; its page is the main page.  Screenshots are not enabled.          *)
(***************************************************************************)
\* the state of the page a worker works on
WorkerPage(st, w) ==
  IF st.workers[w].page = "main" THEN st.page ELSE st.workers[w].page

\* a page that rejects every call
AllReject == [k \in 1..12 |-> TRUE]

\* what a page can do to the calls of one navigateToSlide
Behaviours(pageState) ==
  IF pageState = "open" THEN { <<>>, <<TRUE>>, <<TRUE, TRUE>> } ELSE { AllReject }

\* new PageNavigator(page, {wait: this.options.wait}) on a page that behaves so
NavigatorOn(rejects, wait, totalSlides) ==
  [rejects |-> rejects, given |-> rejects, wait |-> wait, pageTotal |-> totalSlides,
   totalSlides |-> totalSlides, calls |-> <<>>, log |-> <<>>]

\* a worker of the parallel check, before its page is created
NewWorker(chunk) ==
  [chunk |-> chunk, next |-> 1, at |-> "newPage", page |-> "none", failed |-> FALSE, log |-> <<>>]

\* the loop of the sequential check, on this.page
MainLoop(pageRange) ==
  [chunk |-> pageRange, next |-> 1, at |-> IF pageRange = <<>> THEN "done" ELSE "navigate",
   page |-> "main", failed |-> FALSE, log |-> <<>>]

\* lines 219-226 and 292: one worker for each chunk, or the one loop
RunWorkers(pageRange, concurrency) ==
  IF concurrency > 1
  THEN LET chunks == chunkArray(pageRange, concurrency)
       IN [w \in 1..Len(chunks) |-> NewWorker(chunks[w])]
  ELSE <<MainLoop(pageRange)>>

\* a worker whose step threw: the finally of a parallel worker closes its
\* page first; the sequential loop has none
Thrown(worker) ==
  IF worker.page = "main" THEN [worker EXCEPT !.at = "rejected", !.failed = TRUE]
  ELSE [worker EXCEPT !.at = "close", !.failed = TRUE]

\* a worker whose loop ended
LoopEnded(worker) ==
  IF worker.page = "main" THEN [worker EXCEPT !.at = "done"]
  ELSE [worker EXCEPT !.at = "close"]

\* the next turn of "for (const slideNumber of chunk)", or its end
NextSlide(worker) ==
  IF worker.next < Len(worker.chunk)
  THEN [worker EXCEPT !.next = worker.next + 1, !.at = "navigate"]
  ELSE LoopEnded([worker EXCEPT !.next = worker.next + 1])

\* the detection of the slide is not awaited: the loop goes on (the mutant)
NavigatedUnawaited(worker) == NextSlide(worker)

\* await navigator.navigateToSlide(slideNumber) has returned: detectIssues
\* of the same slide is next
Navigated(worker) == [worker EXCEPT !.at = "detect"]

\* slides.push for every slide, with or without issues (the mutant)
PushResultAlways(results, slideNumber, issueCount) ==
  Append(results, [page |-> slideNumber, issueCount |-> issueCount])

\* if (issues.length > 0) slides.push({page: slideNumber, issueCount: issues.length, ...})
PushResult(results, slideNumber, issueCount) ==
  IF issueCount > 0
  THEN Append(results, [page |-> slideNumber, issueCount |-> issueCount])
  ELSE results

RECURSIVE SumIssueCounts(_)
SumIssueCounts(results) ==
  IF results = <<>> THEN 0 ELSE Head(results).issueCount + SumIssueCounts(Tail(results))

\* SlidevChecker.aggregateResults, without the summary by issue type
aggregateResults(totalSlides, results) ==
  [totalSlides |-> totalSlides,
   slidesWithIssues |-> [k \in 1..Len(results) |-> results[k].page],
   issuesFound |-> SumIssueCounts(results),
   slides |-> results]

\* a check without the finally: an error leaves check at once (the mutant)
AfterTryNoFinally(failed) == IF failed THEN "settled" ELSE "cleanupPage"

\* try { ... } finally { await this.cleanup() }: where check goes on when the
\* try block is left, with or without an error
AfterTry(failed) == "cleanupPage"

\* the try block is left with an error
Failing(st) == [st EXCEPT !.error = TRUE]

RunUnchanged ==
  UNCHANGED <<scan, nav, markdown, slides, warnings, presentation, layoutArgs, layoutArea,
              calibration, textArgs, measurement, estimates, page, config, detected, mapper,
              issue, attributed, heap, instance, returned, checker, options>>

\* lines 70-82: the url, or the launch of Slidev, outside the try block.  A
\* launch that fails has stopped the process (timeout) or has none running.
Check ==
  /\ pc = "check"
  /\ \/ /\ session.target = "url"
        /\ pc' = "launchBrowser"
        /\ UNCHANGED session
     \/ /\ session.target = "slides"
        /\ pc' = "launchBrowser"
        /\ session' = [session EXCEPT !.launcher = "running"]
     \/ /\ session.target = "slides"
        /\ pc' = "settled"
        /\ session' = [session EXCEPT !.launcher = "stopped", !.error = TRUE,
                                      !.outcome = "rejected"]
     \/ /\ session.target = "none"
        /\ pc' = "settled"
        /\ session' = [session EXCEPT !.error = TRUE, !.outcome = "rejected"]
  /\ RunUnchanged

LaunchBrowser ==
  /\ pc = "launchBrowser"
  /\ \/ /\ session' = [session EXCEPT !.browser = "open"]
        /\ pc' = "createPage"
     \/ /\ session' = Failing(session)
        /\ pc' = AfterTry(TRUE)
  /\ RunUnchanged

CreatePage ==
  /\ pc = "createPage"
  /\ \/ /\ session' = [session EXCEPT !.page = "open"]
        /\ pc' = "navigateToUrl"
     \/ /\ session' = Failing(session)
        /\ pc' = AfterTry(TRUE)
  /\ RunUnchanged

NavigateToUrl ==
  /\ pc = "navigateToUrl"
  /\ \/ /\ pc' = "performCheck"
        /\ UNCHANGED session
     \/ /\ session' = Failing(session)
        /\ pc' = AfterTry(TRUE)
  /\ RunUnchanged

\* performCheck up to its loops: waitForReady, the slide count, the page range
StartCheck ==
  /\ pc = "performCheck"
  /\ \E ready \in BOOLEAN :
       \E range \in { parsePageRange(session.pages, session.totalSlides) } :
         IF ~ ready \/ session.totalSlides = 0 \/ range.threw
         THEN /\ session' = Failing(session)
              /\ pc' = AfterTry(TRUE)
         ELSE /\ session' = [session EXCEPT
                   !.pageRange = range.pages,
                   !.workers = RunWorkers(range.pages, session.concurrency)]
              /\ pc' = "checking"
  /\ RunUnchanged

\* const workerPage = await this.browser.newPage(...), outside the worker's try
NewPage ==
  /\ \E w \in 1..Len(session.workers) :
       /\ session.workers[w].at = "newPage"
       /\ \/ /\ session.browser = "open"
             /\ session' = [session EXCEPT !.workers[w].page = "open",
                                           !.workers[w].at = "ready"]
          \/ session' = [session EXCEPT !.workers[w].at = "rejected",
                                        !.workers[w].failed = TRUE]
  /\ UNCHANGED pc
  /\ RunUnchanged

\* workerPage.goto(this.options.url || '') and workerNavigator.waitForReady.
\* check keeps the address of a Slidev it launched in a local variable, so a
\* worker of such a check is sent to '', which goto rejects.
WorkerReady ==
  /\ \E w \in 1..Len(session.workers) :
       /\ session.workers[w].at = "ready"
       /\ \/ /\ WorkerPage(session, w) = "open"
             /\ session.target = "url"
             /\ session' = [session EXCEPT !.workers[w].at = "navigate"]
          \/ session' = [session EXCEPT !.workers[w] = Thrown(@)]
  /\ UNCHANGED pc
  /\ RunUnchanged

\* await navigator.navigateToSlide(slideNumber)
WorkerNavigate ==
  /\ \E w \in 1..Len(session.workers) :
       /\ session.workers[w].at = "navigate"
       /\ \E rejects \in Behaviours(WorkerPage(session, w)) :
            \E done \in { navigateToSlide(NavigatorOn(rejects, session.wait, session.totalSlides)) } :
              LET worker == session.workers[w]
                  slideNumber == worker.chunk[worker.next]
                  logged == [worker EXCEPT !.log = Append(@, <<"navigate", slideNumber>>)]
              IN IF done.threw
                 THEN session' = [session EXCEPT !.workers[w] = Thrown(logged)]
                 ELSE session' = [session EXCEPT !.workers[w] = Navigated(logged)]
  /\ UNCHANGED pc
  /\ RunUnchanged

\* await detector.detectIssues() and the push of the slide's result
WorkerDetect ==
  /\ \E w \in 1..Len(session.workers) :
       /\ session.workers[w].at = "detect"
       /\ LET worker == session.workers[w]
              slideNumber == worker.chunk[worker.next]
              logged == [worker EXCEPT !.log = Append(@, <<"detect", slideNumber>>)]
          IN \/ /\ WorkerPage(session, w) = "open"
                /\ session' = [session EXCEPT
                     !.workers[w] = NextSlide(logged),
                     !.results = PushResult(@, slideNumber, session.issues[slideNumber + 1])]
             \/ session' = [session EXCEPT !.workers[w] = Thrown(logged)]
  /\ UNCHANGED pc
  /\ RunUnchanged

\* finally { await workerPage.close() }
WorkerClose ==
  /\ \E w \in 1..Len(session.workers) :
       /\ session.workers[w].at = "close"
       /\ session' = [session EXCEPT
            !.workers[w].page = "closed",
            !.workers[w].at = IF session.workers[w].failed THEN "rejected" ELSE "done"]
  /\ UNCHANGED pc
  /\ RunUnchanged

\* await Promise.all(...), or the end of the sequential loop: performCheck
\* goes on when every worker is done, and throws as soon as one has rejected
AwaitWorkers ==
  /\ pc = "checking"
  /\ \/ /\ \E w \in 1..Len(session.workers) : session.workers[w].at = "rejected"
        /\ session' = Failing(session)
        /\ pc' = AfterTry(TRUE)
     \/ /\ \A w \in 1..Len(session.workers) : session.workers[w].at = "done"
        /\ session' = [session EXCEPT
             !.result = <<aggregateResults(session.totalSlides, session.results)>>]
        /\ pc' = AfterTry(FALSE)
  /\ RunUnchanged

\* cleanup: if (this.page) await this.page.close()
CleanupPage ==
  /\ pc = "cleanupPage"
  /\ session' = [session EXCEPT !.page = IF @ = "none" THEN "none" ELSE "closed"]
  /\ pc' = "cleanupBrowser"
  /\ RunUnchanged

\* cleanup: if (this.browser) await this.browser.close()
CleanupBrowser ==
  /\ pc = "cleanupBrowser"
  /\ session' =
       IF session.browser = "none" THEN session
       ELSE [session EXCEPT
               !.browser = "closed",
               !.workers = [w \in 1..Len(session.workers) |->
                              IF session.workers[w].page = "open"
                              THEN [session.workers[w] EXCEPT !.page = "closed"]
                              ELSE session.workers[w]]]
  /\ pc' = "cleanupLauncher"
  /\ RunUnchanged

\* cleanup: if (this.launcher) await this.launcher.stop(); then check settles
CleanupLauncher ==
  /\ pc = "cleanupLauncher"
  /\ session' = [session EXCEPT
       !.launcher = IF @ = "none" THEN "none" ELSE "stopped",
       !.outcome = IF session.error THEN "rejected" ELSE "resolved"]
  /\ pc' = "settled"
  /\ RunUnchanged

(***************************************************************************)
(* extractContentNodes, one turn of its loop at a time                      *)
(***************************************************************************)
\* while (i < lines.length) { ... }: the turn at index scan.i.  from is not
\* a variable of the program: it records the index the turn started at.
ScanLine ==
  /\ pc = "scanning"
  /\ scan.i < Len(scan.lines)
  /\ \E st \in { ExtractLine(scan.lines, 0, 1,
                             [i |-> scan.i, nodes |-> scan.nodes, warnings |-> scan.warnings]) } :
       scan' = [scan EXCEPT !.i = st.i, !.nodes = st.nodes, !.warnings = st.warnings,
                            !.from = scan.i]
  /\ pc' = pc
  /\ UNCHANGED <<nav, session, markdown, slides, warnings, presentation, layoutArgs, layoutArea,
                 calibration, textArgs, measurement, estimates, page, config, detected, mapper,
                 issue, attributed, heap, instance, returned, checker, options>>

\* the loop has ended: return nodes
ScanReturn ==
  /\ pc = "scanning"
  /\ scan.i >= Len(scan.lines)
  /\ pc' = "scanned"
  /\ UNCHANGED <<scan, nav, session, markdown, slides, warnings, presentation, layoutArgs,
                 layoutArea, calibration, textArgs, measurement, estimates, page, config,
                 detected, mapper, issue, attributed, heap, instance, returned, checker, options>>

(***************************************************************************)
(* Inputs and specifications                                               *)
(***************************************************************************)
MaxDocLines == 5

MaxCanvasSteps == 3

MaxTextLength == 4

RECURSIVE SeqsUpTo(_, _)
SeqsUpTo(S, n) ==
  IF n = 0 THEN { <<>> }
  ELSE LET shorter == SeqsUpTo(S, n - 1)
       IN shorter \cup { Append(s, x) : s \in { t \in shorter : Len(t) = n - 1 }, x \in S }

\* a document is its lines, one per line
Document(ls) == JoinLines(ls)

Idle == <<>>

ParserIdle ==
  markdown = Idle /\ slides = Idle /\ warnings = Idle /\ presentation = Idle

LayoutIdle == layoutArgs = Idle /\ layoutArea = Idle

PredictorIdle ==
  calibration = Idle /\ textArgs = Idle /\ measurement = Idle /\ estimates = Idle

DetectorIdle == page = Idle /\ config = Idle /\ detected = Idle

MapperIdle == mapper = Idle /\ issue = Idle /\ attributed = Idle

InstanceIdle == heap = Idle /\ instance = Idle /\ returned = Idle

CheckerIdle == checker = Idle /\ options = Idle

RunIdle == nav = Idle /\ session = Idle /\ scan = Idle

ToolIdle == DetectorIdle /\ MapperIdle /\ InstanceIdle /\ CheckerIdle /\ RunIdle

(* ---- parseSlides ---- *)
SlideLines ==
  { Dashes,
    <<>>,
    <<" ">>,
    <<"#", " ", "A">>,
    <<"b">>,
    <<"f","o","n","t","s",":">>,
    <<"h","i","d","e",":">> }

\* the documents of at most n lines
SlideDocs(n) == { Document(ls) : ls \in SeqsUpTo(SlideLines, n) \ { <<>> } }

InitSlides ==
  /\ pc = "call"
  /\ markdown \in SlideDocs(MaxDocLines)
  /\ slides = <<>>
  /\ warnings = Idle
  /\ presentation = Idle
  /\ LayoutIdle
  /\ PredictorIdle
  /\ ToolIdle

ParseSlides ==
  /\ pc = "call"
  /\ slides' = parseSlides(markdown)
  /\ pc' = "parsed"
  /\ UNCHANGED <<toolVars, warnings, presentation, markdown, layoutArgs, layoutArea, calibration, textArgs,
                 measurement, estimates>>

NextSlides == ParseSlides

SpecSlides == InitSlides /\ [][NextSlides]_vars

(* ---- getLayoutContentArea ---- *)
L_unknown == <<"u","n","k","n","o","w","n","-","l","a","y","o","u","t">>

LayoutInputs == OwnLayoutKeys \cup ObjectPrototypeKeys \cup { L_unknown, <<>> }

\* around the padding (112 by 80), and the canvases of the tests
CanvasWidths == { 112 + d : d \in 0..MaxCanvasSteps } \cup { 980, 1200 }

CanvasHeights == { 80 + d : d \in 0..MaxCanvasSteps } \cup { 552, 675 }

InitLayout ==
  /\ pc = "call"
  /\ layoutArgs \in [ layout : LayoutInputs, canvasWidth : CanvasWidths,
                      canvasHeight : CanvasHeights ]
  /\ layoutArea = Idle
  /\ ParserIdle
  /\ PredictorIdle
  /\ ToolIdle

GetLayoutContentArea ==
  /\ pc = "call"
  /\ layoutArea' = getLayoutContentArea(layoutArgs.layout, layoutArgs.canvasWidth,
                                        layoutArgs.canvasHeight)
  /\ pc' = "returned"
  /\ UNCHANGED <<toolVars, warnings, presentation, markdown, slides, layoutArgs, calibration, textArgs,
                 measurement, estimates>>

NextLayout == GetLayoutContentArea

SpecLayout == InitLayout /\ [][NextLayout]_vars

(* ---- TextPredictor ---- *)
Texts == { [k \in 1..n |-> "A"] : n \in 0..MaxTextLength }

\* a calibration whose content area is not the default one of its canvas
CustomCalibration ==
  [ createDefaultCalibration(300, 200) EXCEPT
      !.actualFontSizes = [ h1 |-> 600, h2 |-> 400, h3 |-> 300, h4 |-> 200,
                            paragraph |-> 160, code |-> 120, listItem |-> 0 ],
      !.contentArea = [ width |-> 72, height |-> 100 ] ]

Calibrations ==
  { createDefaultCalibration(980, 552), createDefaultCalibration(200, 120),
    CustomCalibration }

PredictorLayouts ==
  { L_default, L_two_cols, L_two_cols_header, L_full, L_image_left, L_fact,
    L_unknown, P_constructor, P_proto }

InitMeasure ==
  /\ pc = "call"
  /\ calibration \in Calibrations
  /\ textArgs = Idle
  /\ measurement = Idle
  /\ estimates = Idle
  /\ ParserIdle
  /\ LayoutIdle
  /\ ToolIdle

MeasureText ==
  /\ pc = "call"
  /\ \E text \in Texts, elementType \in ElementTypes :
       /\ textArgs' = [ text |-> text, elementType |-> elementType ]
       /\ measurement' = measureText(calibration, text, elementType)
  /\ pc' = "measured"
  /\ UNCHANGED <<toolVars, warnings, presentation, markdown, slides, layoutArgs, layoutArea, calibration, estimates>>

MeasureTextForLayout ==
  /\ pc = "call"
  /\ \E text \in Texts, elementType \in ElementTypes, layout \in PredictorLayouts :
       /\ textArgs' = [ text |-> text, elementType |-> elementType, layout |-> layout ]
       /\ measurement' = measureTextForLayout(calibration, text, elementType, layout)
  /\ pc' = "measured"
  /\ UNCHANGED <<toolVars, warnings, presentation, markdown, slides, layoutArgs, layoutArea, calibration, estimates>>

NextMeasure == MeasureText \/ MeasureTextForLayout

SpecMeasure == InitMeasure /\ [][NextMeasure]_vars

\* font sizes, in tenths: zero, the defaults, fractions
FontSizes == { 0, 5, 140, 176, 480 }

InitEstimate ==
  /\ pc = "call"
  /\ calibration \in Calibrations
  /\ estimates = <<>>
  /\ textArgs = Idle
  /\ measurement = Idle
  /\ ParserIdle
  /\ LayoutIdle
  /\ ToolIdle

\* two calls in a row on one predictor
EstimateTextWidth ==
  /\ pc = "call"
  /\ Len(estimates) < 2
  /\ \E text \in Texts, fontSize \in FontSizes :
       estimates' = Append(estimates,
                           [ text |-> text, fontSize |-> fontSize,
                             width |-> estimateTextWidth(text, fontSize) ])
  /\ UNCHANGED <<toolVars, pc, warnings, presentation, markdown, slides, layoutArgs, layoutArea, calibration, textArgs,
                 measurement>>

NextEstimate == EstimateTextWidth

SpecEstimate == InitEstimate /\ [][NextEstimate]_vars

(* ---- parsePresentation ---- *)
MaxPresentationLines == 4

\* one line of every kind the node scan tells apart, and slide frontmatter
ContentLines ==
  { Dashes,
    <<>>,
    <<"#"," ","A">>,
    <<"b">>,
    <<Backtick,Backtick,Backtick>>,
    <<Backtick,Backtick,Backtick,"j","s">>,
    <<"-"," ","x">>,
    <<" "," ","y">>,
    <<">"," ","q">>,
    <<"|"," ","c"," ","|">>,
    <<"l","a","y","o","u","t",":"," ","c","e","n","t","e","r">> }

\* the single-line nodes, which need no long document
SingleLines ==
  { <<"1","."," ","z">>, <<"!","[","a","]","(","u",")">>, <<"<","v","-","c","l","i","c","k",">">>, <<"<","/","v","-","c","l","i","c","k","s",">">>, <<":",":","r","i","g","h","t",":",":">>,
    <<"<","!","-","-"," ","n"," ","-","-",">">>, <<"|","-","-","|">>, <<"#","#","#","#","#","#"," ">> }

\* global and slide metadata: well-formed values of every type, a line
\* without a colon, a nested block
MetadataLines ==
  { Dashes,
    <<"#"," ","A">>,
    <<"t","h","e","m","e">>,
    <<"t","h","e","m","e",":"," ","s","e","r","i","p","h">>,
    <<"a","s","p","e","c","t","R","a","t","i","o",":"," ","2">>,
    <<"a","s","p","e","c","t","R","a","t","i","o",":"," ","4","/","3">>,
    <<"c","a","n","v","a","s","W","i","d","t","h",":"," ","1","2","0","0">>,
    <<"l","a","y","o","u","t",":"," ","t","w","o","-","c","o","l","s">>,
    <<"l","a","y","o","u","t",":"," ","c","o","n","s","t","r","u","c","t","o","r">>,
    <<"l","a","y","o","u","t",":"," ","v","a","l","u","e","O","f">>,
    <<"f","o","n","t","s",":">>,
    <<" "," ","s","a","n","s",":"," ","\"","R","\"">> }

\* the documents of at most n lines of content or of metadata
PresentationDocs(n) ==
  { Document(ls) : ls \in
      (SeqsUpTo(ContentLines, n)
         \cup SeqsUpTo(ContentLines \cup SingleLines, 2)
         \cup SeqsUpTo(MetadataLines, n)) \ { <<>> } }

InitPresentation ==
  /\ pc = "call"
  /\ markdown \in PresentationDocs(MaxPresentationLines)
  /\ slides = Idle
  /\ warnings = <<>>
  /\ presentation = Idle
  /\ LayoutIdle
  /\ PredictorIdle
  /\ ToolIdle

PresentationThrew == [threw |-> TRUE]

ParsePresentation ==
  /\ pc = "call"
  /\ \E done \in { parsePresentation(markdown) } :
       /\ presentation' = IF done.threw THEN PresentationThrew ELSE done
       /\ warnings' = done.warnings
  /\ pc' = "parsed"
  /\ UNCHANGED <<toolVars, markdown, slides, layoutArgs, layoutArea, calibration, textArgs,
                 measurement, estimates>>

NextPresentation == ParsePresentation

SpecPresentation == InitPresentation /\ [][NextPresentation]_vars

(* ---- detectIssues ---- *)
MaxThreshold == 2

MaxNodes == 2

MaxDepth == 4

\* the rectangle of a slide page that is shown, and of one that is not
SlideRect == Rect(0, 0, 100, 50)

NoRect == Rect(0, 0, 0, 0)

ShownStyle ==
  [display |-> "block", visibility |-> "visible", opacity |-> "1",
   overflowX |-> "visible", overflowY |-> "visible", textOverflow |-> "clip"]

PlainElement ==
  [parent |-> 0, classList |-> <<>>, tag |-> "p", id |-> "", text |-> <<"t">>, src |-> "",
   style |-> ShownStyle, scrollWidth |-> 200, clientWidth |-> 200,
   scrollHeight |-> 100, clientHeight |-> 100, rect |-> Rect(10, 10, 20, 20)]

\* an element of a slide that is not rendered has no geometry
Collapsed(el) ==
  [el EXCEPT !.scrollWidth = 0, !.clientWidth = 0, !.scrollHeight = 0, !.clientHeight = 0,
             !.rect = NoRect]

\* the computed values of overflow-x and overflow-y: visible on one axis only
\* computes to auto
AxisPairs ==
  { <<"visible", "visible">> } \cup ({Hidden, "auto", "scroll"} \X {Hidden, "auto", "scroll"})

ClassLists == { <<>>, <<"nav">>, <<"a", "b">> }

\* elements that differ in how they clip and in how far their content runs over
ClippingElements ==
  { [PlainElement EXCEPT !.style.overflowX = axes[1], !.style.overflowY = axes[2],
                         !.style.textOverflow = textOverflow,
                         !.scrollWidth = scrollWidth, !.scrollHeight = scrollHeight,
                         !.classList = classList] :
      axes \in AxisPairs, textOverflow \in {"clip", "ellipsis"},
      scrollWidth \in {200, 201, 202, 300}, scrollHeight \in {100, 103},
      classList \in ClassLists }

\* rectangles inside the slide, past one edge by 1, 2 and 10, past all four,
\* and without a width or a height
ElementRects ==
  { Rect(10, 10, 20, 20), Rect(0, 0, 100, 50),
    Rect(0 - 1, 10, 20, 20), Rect(0 - 2, 10, 20, 20), Rect(0 - 10, 10, 20, 20),
    Rect(10, 0 - 10, 20, 20), Rect(90, 10, 110, 20), Rect(10, 40, 20, 60), Rect(10, 40, 20, 52),
    Rect(0 - 10, 0 - 10, 110, 60),
    Rect(10, 10, 10, 10), Rect(120, 10, 120, 10), Rect(120, 10, 120, 20) }

\* the ways an element is not shown
Styles ==
  { ShownStyle, [ShownStyle EXCEPT !.display = "none"],
    [ShownStyle EXCEPT !.visibility = Hidden], [ShownStyle EXCEPT !.opacity = "0"] }

PlacedElements ==
  { [PlainElement EXCEPT !.rect = rect, !.style = style, !.classList = classList] :
      rect \in ElementRects, style \in Styles,
      classList \in ClassLists \cup { <<VClickHidden>> } }
  \cup { [PlainElement EXCEPT !.rect = rect, !.tag = "img", !.src = "a.png", !.id = id,
                              !.text = <<>>] :
           rect \in ElementRects, id \in {"", "logo"} }
  \cup { [PlainElement EXCEPT !.rect = Rect(90, 10, 110, 20), !.text = [i \in 1..n |-> "a"]] :
           n \in {50, 51} }

\* an element that runs over in every way, and the same as the child of the
\* first element
OverflowingElement ==
  [PlainElement EXCEPT !.rect = Rect(90, 10, 110, 20),
                       !.style.overflowX = "auto", !.style.overflowY = Hidden,
                       !.scrollWidth = 300, !.scrollHeight = 103]

OverflowingChild == [OverflowingElement EXCEPT !.parent = 1]

Parents ==
  { [PlainElement EXCEPT !.tag = "div", !.style = style, !.classList = classList] :
      style \in Styles, classList \in ClassLists \cup { <<VClickHidden>> } }

\* n elements, each the parent of the next: the first is transparent and the
\* last runs over the slide
Nested(n) ==
  [k \in 1..n |->
     IF k = 1 THEN [PlainElement EXCEPT !.tag = "div", !.style.opacity = "0"]
     ELSE IF k = n THEN [OverflowingChild EXCEPT !.parent = n - 1]
     ELSE [PlainElement EXCEPT !.tag = "div", !.parent = k - 1]]

ElementLists(depth) ==
  { <<el>> : el \in ClippingElements \cup PlacedElements }
    \cup { <<parent, OverflowingChild>> : parent \in Parents }
    \cup { Nested(n) : n \in 2..(depth + 1) }

SlidePage(active, number, dataNo, sized, layout, elements) ==
  [kind |-> "page", active |-> active, number |-> number, dataNo |-> dataNo,
   rect |-> IF sized THEN SlideRect ELSE NoRect, layout |-> layout,
   elements |-> IF ~layout THEN <<>>
                ELSE IF sized THEN elements
                ELSE [k \in 1..Len(elements) |-> Collapsed(elements[k])]]

StrayLayout(elements) ==
  [kind |-> "layout", active |-> FALSE, number |-> NoNumber, dataNo |-> NoNumber,
   rect |-> SlideRect, layout |-> TRUE, elements |-> elements]

\* the nodes the resolution of the active slide tells apart
Nodes ==
  { SlidePage(active, numbering[1], numbering[2], sized, layout, <<OverflowingElement>>) :
      active \in BOOLEAN, numbering \in { <<NoNumber, NoNumber>>, <<2, NoNumber>>, <<NoNumber, 2>> },
      sized \in BOOLEAN, layout \in BOOLEAN }
  \cup { StrayLayout(<<OverflowingElement>>) }

Locations ==
  { [pathname |-> <<"/">>, hash |-> <<>>],
    [pathname |-> <<"/", "2">>, hash |-> <<>>],
    [pathname |-> <<"/">>, hash |-> <<"#", "/", "2">>],
    [pathname |-> <<"/", "d", "/", "1", "2">>, hash |-> <<"#", "2">>] }

DetectionConfig(exclude, threshold, textOverflow, elementOverflow, scrollbar) ==
  [exclude |-> exclude, threshold |-> threshold, textOverflow |-> textOverflow,
   elementOverflow |-> elementOverflow, scrollbar |-> scrollbar]

\* SlidevChecker passes its two default selectors and a threshold of 1
AllDetectors == DetectionConfig(<<"slidev-page-indicator", "nav">>, 1, TRUE, TRUE, TRUE)

Excludes == { <<>>, <<"nav">>, <<"slidev-page-indicator", "nav">>, <<"b">>, <<"slidev-layout">> }

Configs ==
  { DetectionConfig(exclude, threshold, TRUE, TRUE, TRUE) :
      exclude \in Excludes, threshold \in 0..MaxThreshold }
  \cup { [AllDetectors EXCEPT !.textOverflow = FALSE],
         [AllDetectors EXCEPT !.elementOverflow = FALSE],
         [AllDetectors EXCEPT !.scrollbar = FALSE] }

\* one shown slide with the elements to inspect, under every configuration;
\* and every arrangement of slides, under the checker's configuration
InitDetect ==
  /\ pc = "detectTextOverflow"
  /\ \/ /\ page \in { [location |-> [pathname |-> <<"/", "1">>, hash |-> <<>>],
                       nodes |-> <<SlidePage(TRUE, 1, 1, TRUE, TRUE, elements)>>] :
                        elements \in ElementLists(MaxDepth) }
        /\ config \in Configs
     \/ /\ page \in { [location |-> location, nodes |-> nodes] :
                        location \in Locations, nodes \in SeqsUpTo(Nodes, MaxNodes) }
        /\ config = AllDetectors
  /\ detected = <<>>
  /\ ParserIdle
  /\ LayoutIdle
  /\ PredictorIdle
  /\ MapperIdle
  /\ InstanceIdle
  /\ CheckerIdle
  /\ RunIdle

NextDetect == DetectTextOverflow \/ DetectElementOverflow \/ DetectScrollbar

SpecDetect == InitDetect /\ [][NextDetect]_vars

(* ---- addSourceInfo ---- *)
MaxMapperLines == 4

MapperLines ==
  { Dashes,
    <<"#", " ", "A">>,
    <<"#", " ", "B">>,
    Fence,
    <<"!", "[", "A", "]", "(", "u", ")">> }

MapperDocs(n) == { Document(ls) : ls \in SeqsUpTo(MapperLines, n) \ { <<>> } }

MapperTags == {"h1", "h2", "img", "pre", "code", "div", "p"}

\* the text of the element: none, a title, white space, a text of no line
MapperTexts == { <<>>, <<"A">>, <<"B">>, <<" ">>, <<"z">> }

MapperIssue(tag, text) ==
  [type |-> "text-overflow",
   element |-> [tag |-> tag, selector |-> tag, text |-> text],
   details |-> [overflowX |-> 12, overflowY |-> 0],
   source |-> <<>>]

MapperIssues == { MapperIssue(tag, text) : tag \in MapperTags, text \in MapperTexts }

InitMapper ==
  /\ pc = "loadProject"
  /\ markdown \in MapperDocs(MaxMapperLines)
  /\ issue \in MapperIssues
  /\ mapper = <<>>
  /\ attributed = <<>>
  /\ slides = Idle /\ warnings = Idle /\ presentation = Idle
  /\ LayoutIdle
  /\ PredictorIdle
  /\ DetectorIdle
  /\ InstanceIdle
  /\ CheckerIdle
  /\ RunIdle

NextMapper == LoadProject \/ AddSourceInfo

SpecMapper == InitMapper /\ [][NextMapper]_vars

(* ---- parsePresentation, called repeatedly on one instance ---- *)
MaxCalls == 3

\* documents with no warning, with one, with two, and one that makes the call throw
InstanceDocs ==
  { Document(<< <<"#"," ","A">> >>),
    Document(<< Fence >>),
    Document(<< <<"b">>, Fence \o <<"j","s">> >>),
    Document(<< Fence, Dashes, Fence >>),
    Document(<< Dashes, <<"a","s","p","e","c","t","R","a","t","i","o",":"," ","2">>, Dashes,
                <<"#"," ","A">> >>) }

InitInstance ==
  /\ pc = "ready"
  /\ heap = NewParser.heap
  /\ instance = NewParser.instance
  /\ returned = <<>>
  /\ ParserIdle
  /\ LayoutIdle
  /\ PredictorIdle
  /\ DetectorIdle
  /\ MapperIdle
  /\ CheckerIdle
  /\ RunIdle

ParsePresentationOnInstance ==
  /\ pc = "ready"
  /\ Len(returned) < MaxCalls
  /\ \E md \in InstanceDocs :
       \E done \in { parsePresentation(md) } :
         \E call \in { parsePresentationOn(heap, instance, md, done) } :
           /\ heap' = call.heap
           /\ instance' = call.instance
           /\ returned' = Append(returned, call.returned)
  /\ UNCHANGED <<scan, nav, session, pc, markdown, slides, warnings, presentation, layoutArgs, layoutArea,
                 calibration, textArgs, measurement, estimates, page, config, detected,
                 mapper, issue, attributed, checker, options>>

NextInstance == ParsePresentationOnInstance

SpecInstance == InitInstance /\ [][NextInstance]_vars

(* ---- performCheck ---- *)
MaxPage == 4

MaxSlides == 3

\* a part of a page range: one page, or the pages from..to
PagePart(from, to, single) == [from |-> from, to |-> to, single |-> single]

PageParts ==
  { PagePart(n, n, TRUE) : n \in 0..MaxPage }
    \cup { PagePart(a, b, FALSE) : a \in 0..MaxPage, b \in 0..MaxPage }

\* the text of a page number and of a part, as a user writes them
PageText(n) == IF n < 10 THEN <<DigitChars[n + 1]>> ELSE <<DigitChars[(n \div 10) + 1], DigitChars[(n % 10) + 1]>>

PartText(part) ==
  IF part.single THEN PageText(part.from)
  ELSE PageText(part.from) \o <<"-">> \o PageText(part.to)

\* the pages a part names
PartPages(part) == part.from..part.to

\* the value of --pages and the pages it names: one part, two parts (the
\* second after ", "), a text that is no range, or no option at all
PageRanges(totalSlides) ==
  { [pages |-> <<PartText(p)>>, asked |-> PartPages(p)] : p \in PageParts }
    \cup { [pages |-> <<PartText(p) \o <<",", " ">> \o PartText(q)>>,
            asked |-> PartPages(p) \cup PartPages(q)] : p \in PageParts, q \in PageParts }
    \cup { [pages |-> << <<"x">> >>, asked |-> {}],
           [pages |-> << <<"2", "-">> >>, asked |-> {}],
           [pages |-> <<>>, asked |-> 1..totalSlides] }

\* asked is not a field of the program: it records what the range names
InitChecker ==
  /\ pc = "performCheck"
  /\ \E totalSlides \in 0..MaxSlides, concurrency \in 1..3 :
       \E range \in PageRanges(totalSlides) :
         checker = [pages |-> range.pages,
                    asked |-> range.asked,
                    totalSlides |-> totalSlides,
                    concurrency |-> concurrency,
                    pageRange |-> <<>>,
                    workers |-> <<>>,
                    visited |-> <<>>]
  /\ options = Idle
  /\ ParserIdle
  /\ LayoutIdle
  /\ PredictorIdle
  /\ DetectorIdle
  /\ MapperIdle
  /\ InstanceIdle
  /\ RunIdle

NextChecker == PerformCheck \/ CheckSlide \/ FinishCheck

SpecChecker == InitChecker /\ [][NextChecker]_vars

(* ---- the command line and the configuration file ---- *)
\* what the user wrote on the command line
CommandLines ==
  [url : { <<>>, <<"http://cli">> },
   pages : { <<>>, <<"1-2">> },
   threshold : { <<>>, << <<"5">> >>, << <<"0">> >> },
   verbose : { <<>>, <<TRUE>> },
   browser : { <<>>, <<"webkit">>, <<"safari">> }]

\* what the configuration file holds; a run without --config is the empty file
ConfigFiles ==
  [url : { <<>>, <<"http://file">> },
   pages : { <<>>, <<"3">> },
   threshold : { <<>>, <<2>>, <<0>> },
   verbose : { <<>>, <<TRUE>>, <<FALSE>> },
   browser : { <<>>, <<"firefox">> }]

InitOptions ==
  /\ pc = "parse"
  /\ \E argv \in CommandLines, file \in ConfigFiles :
       options = [argv |-> argv, file |-> file, options |-> <<>>, checkerOptions |-> <<>>]
  /\ checker = Idle
  /\ ParserIdle
  /\ LayoutIdle
  /\ PredictorIdle
  /\ DetectorIdle
  /\ MapperIdle
  /\ InstanceIdle
  /\ RunIdle

NextOptions == ProgramParse \/ ProgramAction

SpecOptions == InitOptions /\ [][NextOptions]_vars

(* ---- navigateToSlide ---- *)
MaxPageCalls == 6

\* what the page does to the calls, from the first call on
PageBehaviours(n) == SeqsUpTo(BOOLEAN, n)

InitNavigate ==
  /\ pc = "navigateToSlide"
  /\ \E rejects \in PageBehaviours(MaxPageCalls), wait \in {0, 1000}, pageTotal \in {3, 40},
        known \in BOOLEAN :
       nav = [rejects |-> rejects,
              given |-> rejects,
              wait |-> wait,
              pageTotal |-> pageTotal,
              totalSlides |-> IF known THEN pageTotal ELSE 0,
              calls |-> <<>>,
              log |-> <<>>]
  /\ session = Idle
  /\ scan = Idle
  /\ ParserIdle
  /\ LayoutIdle
  /\ PredictorIdle
  /\ DetectorIdle
  /\ MapperIdle
  /\ InstanceIdle
  /\ CheckerIdle

NextNavigate == NavigateToSlide

SpecNavigate == InitNavigate /\ [][NextNavigate]_vars

(* ---- check ---- *)
MaxRunSlides == 3

\* the values of --pages of the checks: none, "2-3", "3,1", "0-1"
RunPages ==
  { <<>>, << <<"2", "-", "3">> >>, << <<"3", ",", "1">> >>, << <<"0", "-", "1">> >> }

\* how many issues the detectors find on slide 0, 1, 2, ...: none anywhere,
\* one everywhere, two on the odd slides
RunIssues ==
  { [k \in 1..(MaxRunSlides + 1) |-> 0],
    [k \in 1..(MaxRunSlides + 1) |-> 1],
    [k \in 1..(MaxRunSlides + 1) |-> IF k % 2 = 0 THEN 2 ELSE 0] }

InitRun ==
  /\ pc = "check"
  /\ \E target \in {"url", "slides", "none"}, concurrency \in 1..2, pages \in RunPages,
        totalSlides \in {0, MaxRunSlides}, issues \in RunIssues :
       session = [target |-> target,
                  concurrency |-> concurrency,
                  pages |-> pages,
                  totalSlides |-> totalSlides,
                  wait |-> 0,
                  issues |-> issues,
                  launcher |-> "none",
                  browser |-> "none",
                  page |-> "none",
                  pageRange |-> <<>>,
                  workers |-> <<>>,
                  results |-> <<>>,
                  result |-> <<>>,
                  error |-> FALSE,
                  outcome |-> "pending"]
  /\ nav = Idle
  /\ scan = Idle
  /\ ParserIdle
  /\ LayoutIdle
  /\ PredictorIdle
  /\ DetectorIdle
  /\ MapperIdle
  /\ InstanceIdle
  /\ CheckerIdle

NextRun ==
  \/ Check
  \/ LaunchBrowser
  \/ CreatePage
  \/ NavigateToUrl
  \/ StartCheck
  \/ NewPage
  \/ WorkerReady
  \/ WorkerNavigate
  \/ WorkerDetect
  \/ WorkerClose
  \/ AwaitWorkers
  \/ CleanupPage
  \/ CleanupBrowser
  \/ CleanupLauncher

SpecRun == InitRun /\ [][NextRun]_vars

(* ---- extractContentNodes ---- *)
MaxScanLines == 3

\* content.split('\n') of the slides of at most n lines (never no line at
\* all), of every kind of line the scan tells apart
ScanDocs(n) == SeqsUpTo(ContentLines \cup SingleLines, n) \ { <<>> }

InitScan ==
  /\ pc = "scanning"
  /\ \E lines \in ScanDocs(MaxScanLines) :
       scan = [lines |-> lines, i |-> FrontmatterEnd(lines), nodes |-> <<>>,
               warnings |-> <<>>, from |-> -1]
  /\ nav = Idle
  /\ session = Idle
  /\ ParserIdle
  /\ LayoutIdle
  /\ PredictorIdle
  /\ DetectorIdle
  /\ MapperIdle
  /\ InstanceIdle
  /\ CheckerIdle

NextScan == ScanLine \/ ScanReturn

SpecScan == InitScan /\ [][NextScan]_vars

(* ---- addSourceInfo, for the tags with a construct of their own ---- *)
\* a line of every construct the matcher maps a tag to, and the separator
MatcherLines ==
  { Dashes,
    <<"#", " ", "A">>,
    <<"#", "#", " ", "A">>,
    <<"#", "#", "#", " ", "A">>,
    Fence,
    <<"!", "[", "A", "]", "(", "u", ")">> }

MatcherDocs(n) == { Document(ls) : ls \in SeqsUpTo(MatcherLines, n) \ { <<>> } }

MatcherTags == {"h1", "h2", "h3", "h4", "pre", "img"}

MatcherIssues == { MapperIssue(tag, text) : tag \in MatcherTags, text \in { <<>>, <<"A">> } }

InitMatcher ==
  /\ pc = "loadProject"
  /\ markdown \in MatcherDocs(MaxMapperLines)
  /\ issue \in MatcherIssues
  /\ mapper = <<>>
  /\ attributed = <<>>
  /\ slides = Idle /\ warnings = Idle /\ presentation = Idle
  /\ LayoutIdle
  /\ PredictorIdle
  /\ DetectorIdle
  /\ InstanceIdle
  /\ CheckerIdle
  /\ RunIdle

SpecMatcher == InitMatcher /\ [][NextMapper]_vars

(***************************************************************************)
(* The document of the call, as the checks below read it                    *)
(***************************************************************************)
DocLines == SplitLines(markdown)

SeparatorsOf(lines) == { n \in 1..Len(lines) : IsSeparatorLine(lines[n]) }

\* No '---' line opens a per-slide metadata block: a leading one opens the
\* document-wide block, any other is a plain boundary.
NoSlideMetadataBlocks(lines, seps) ==
  \A n \in seps :
    IF n = 1 THEN looksLikeGlobalFrontmatter(lines, 0)
    ELSE ~looksLikeSlideFrontmatter(lines, n - 1)

\* every line is a separator or lies in exactly one slide range, never both
ExactTiling(lines, seps) ==
  \A n \in 1..Len(lines) :
    Cardinality({ k \in 1..Len(slides) :
                    slides[k].startLine <= n /\ n <= slides[k].endLine })
      = (IF n \in seps THEN 0 ELSE 1)

\* the maximal runs of lines between separators that hold a non-whitespace line
NonBlankSegments(lines, seps) ==
  LET starts == { n \in 1..Len(lines) : n \notin seps /\ (n = 1 \/ (n - 1) \in seps) }
      ends == { n \in 1..Len(lines) : n \notin seps /\ (n = Len(lines) \/ (n + 1) \in seps) }
  IN { seg \in starts \X ends :
         /\ seg[1] <= seg[2]
         /\ \A n \in seg[1]..seg[2] : n \notin seps
         /\ \E n \in seg[1]..seg[2] : Trim(lines[n]) # <<>> }

SlideRanges == { <<slides[k].startLine, slides[k].endLine>> : k \in 1..Len(slides) }

C2_SlidesIncreasingDisjoint ==
  pc = "parsed" =>
    /\ \A k \in 1..Len(slides) :
         1 <= slides[k].startLine /\ slides[k].startLine <= slides[k].endLine
                                  /\ slides[k].endLine <= Len(DocLines)
    /\ \A k \in 1..(Len(slides) - 1) : slides[k].endLine < slides[k + 1].startLine

C2_Witness ==
  /\ pc = "parsed"
  /\ Len(slides) >= 2
  /\ slides[1].startLine < slides[1].endLine
  /\ slides[1].endLine + 1 < slides[2].startLine

\* C3: the k-th line (0-based) of slide.content is document line startLine + k,
\* and endLine - startLine + 1 is the number of lines of slide.content, with or
\* without a global metadata block and with or without per-slide metadata.
C3_SlidesKeepDocumentLines ==
  LET lines == DocLines
  IN pc = "parsed" =>
       \A s \in 1..Len(slides) :
         LET content == SplitLines(slides[s].content)
         IN /\ slides[s].endLine - slides[s].startLine + 1 = Len(content)
            /\ \A k \in 0..(Len(content) - 1) :
                 /\ slides[s].startLine + k <= Len(lines)
                 /\ content[k + 1] = lines[slides[s].startLine + k]

\* a document with a global metadata block and a slide with its own metadata
C3_Witness ==
  LET lines == DocLines
  IN /\ pc = "parsed"
     /\ IsSeparatorLine(lines[1])
     /\ looksLikeGlobalFrontmatter(lines, 0)
     /\ \E s \in 1..Len(slides) :
          /\ slides[s].startLine >= 3
          /\ IsSeparatorLine(lines[slides[s].startLine])
          /\ slides[s].endLine > slides[s].startLine

\* the slides of the completed call (none when the call threw)
PresentedSlides ==
  IF pc = "parsed" /\ ~presentation.threw THEN presentation.slides ELSE <<>>

\* C4: for every parsed slide and every content node parsePresentation emits
\* for it, the node's line range lies inside the slide's range:
\* slide.lineStart <= node.lineStart <= node.lineEnd <= slide.lineEnd.
C4_NodesInsideSlide ==
  \A s \in 1..Len(PresentedSlides) :
    \A k \in 1..Len(PresentedSlides[s].contentNodes) :
      LET slide == PresentedSlides[s]
          node == slide.contentNodes[k]
      IN /\ slide.lineStart <= node.lineStart
         /\ node.lineStart <= node.lineEnd
         /\ node.lineEnd <= slide.lineEnd

\* The fence left open at the end of a slide: the index in lines (from 1) of an
\* opening fence with no closing fence behind it, 0 when every fence is closed.
\* open is the fence that is open before line k.
RECURSIVE OpenFence(_, _, _)
OpenFence(lines, k, open) ==
  IF k > Len(lines) THEN open
  ELSE IF open = 0
    THEN OpenFence(lines, k + 1, IF StartsWith(Trim(lines[k]), Fence) THEN k ELSE 0)
  ELSE OpenFence(lines, k + 1, IF Trim(lines[k]) = Fence THEN 0 ELSE open)

\* the document line of the fence a slide leaves open, 0 when it leaves none
UnclosedFenceLine(slide) ==
  LET lines == SplitLines(slide.rawContent)
      open == OpenFence(lines, FrontmatterEnd(lines) + 1, 0)
  IN IF open = 0 THEN 0 ELSE slide.lineStart + open - 1

NamesLine(warning, lineNumber) == EndsWith(warning, <<" ">> \o NaturalText(lineNumber))

\* C5: when a slide has a code-fence opening line with no closing fence before
\* the slide ends, parsePresentation appends exactly one warning that names the
\* 1-based document line of the opening fence, and emits exactly one code-block
\* node that starts at the opening line; that node ends at the last line of the
\* slide.
C5_UnclosedFenceWarnsAndSpansSlide ==
  \A s \in 1..Len(PresentedSlides) :
    LET slide == PresentedSlides[s]
        opening == UnclosedFenceLine(slide)
        naming == { w \in 1..Len(presentation.warnings) :
                      NamesLine(presentation.warnings[w], opening) }
        blocks == { k \in 1..Len(slide.contentNodes) :
                      /\ slide.contentNodes[k].type = "code-block"
                      /\ slide.contentNodes[k].lineStart = opening }
    IN opening > 0 =>
         /\ Cardinality(naming) = 1
         /\ Cardinality(blocks) = 1
         /\ \A k \in blocks : slide.contentNodes[k].lineEnd = slide.lineEnd

\* a leading metadata block (closed by a second '---') with a line that is
\* neither blank, nor a comment, nor a key followed by a colon
MalformedLeadingBlock(lines) ==
  /\ FrontmatterEnd(lines) > 0
  /\ \E k \in 2..(FrontmatterEnd(lines) - 1) :
       /\ Trim(lines[k]) # <<>>
       /\ ~StartsWith(Trim(lines[k]), <<"#">>)
       /\ ~Includes(lines[k], ":")

\* C6: for every input string, parsePresentation returns a result and does not
\* throw; when the leading metadata block is malformed, the metadata read from
\* it are the defaults and a warning is in the result's warnings.
C6_NeverThrowsWarnsOnMalformedMetadata ==
  pc = "parsed" =>
    /\ ~presentation.threw
    /\ MalformedLeadingBlock(SplitLines(markdown)) =>
         /\ presentation.globalConfig = SlidevConfig(EmptyObject)
         /\ presentation.warnings # <<>>

\* C7: for every canvas width W > 112 and height H > 80,
\* getLayoutContentArea('default', W, H) returns exactly one slot, named
\* 'default' at position 'full', of width W - 112 and height H - 80.
C7_DefaultLayoutOneSlot ==
  (pc = "returned" /\ layoutArgs.layout = L_default
     /\ layoutArgs.canvasWidth > 112 /\ layoutArgs.canvasHeight > 80) =>
    /\ ~layoutArea.threw
    /\ layoutArea.hasSlots
    /\ layoutArea.slots = << [ name |-> "default", position |-> "full",
                               width |-> layoutArgs.canvasWidth - 112,
                               height |-> layoutArgs.canvasHeight - 80 ] >>

C7_Witness ==
  /\ pc = "returned"
  /\ layoutArgs = [ layout |-> L_default, canvasWidth |-> 1200, canvasHeight |-> 675 ]
  /\ Len(layoutArea.slots) = 1
  /\ layoutArea.slots[1].width = 1088
  /\ layoutArea.slots[1].height = 595

\* C8: for every layout name that is not a defined layout name, and every
\* canvas, getLayoutContentArea returns the slots and the total area it returns
\* for 'default' on that canvas; only the echoed layout name differs.
C8_UnknownLayoutIsDefault ==
  (pc = "returned" /\ layoutArgs.layout \notin OwnLayoutKeys) =>
    layoutArea =
      [ getLayoutContentArea(L_default, layoutArgs.canvasWidth, layoutArgs.canvasHeight)
          EXCEPT !.layout = layoutArgs.layout ]

\* C9: measureText and measureTextForLayout report willOverflow exactly when
\* measuredWidth > availableWidth; overflowAmount is their difference when
\* willOverflow and 0 otherwise, so it is never negative.
C9_OverflowAmountMatchesFlag ==
  (pc = "measured" /\ ~measurement.threw) =>
    /\ measurement.willOverflow <=> measurement.measuredWidth > measurement.availableWidth
    /\ measurement.willOverflow =>
         measurement.overflowAmount = measurement.measuredWidth - measurement.availableWidth
    /\ ~measurement.willOverflow => measurement.overflowAmount = 0
    /\ measurement.overflowAmount >= 0

\* a layout-specific measurement that overflows its slot
C9_Witness ==
  /\ pc = "measured"
  /\ ~measurement.threw
  /\ "layout" \in DOMAIN textArgs
  /\ measurement.willOverflow
  /\ measurement.overflowAmount > 0
  /\ measurement.availableWidth > 0

\* C10: estimateTextWidth(text, fontSize) does not decrease when the text gets
\* longer at a fixed non-negative font size, nor when the font size grows for a
\* fixed text.
C10_WidthMonotone ==
  Len(estimates) = 2 =>
    LET a == estimates[1]
        b == estimates[2]
    IN /\ (a.fontSize = b.fontSize /\ a.fontSize >= 0 /\ Len(a.text) <= Len(b.text))
            => a.width <= b.width
       /\ (a.text = b.text /\ a.fontSize <= b.fontSize) => a.width <= b.width

C10_Witness ==
  /\ Len(estimates) = 2
  /\ estimates[1].fontSize = estimates[2].fontSize
  /\ Len(estimates[1].text) < Len(estimates[2].text)
  /\ estimates[1].width < estimates[2].width

(***************************************************************************)
(* The detectors, as the checks below read their results                    *)
(***************************************************************************)
\* the detection of one detector, once detectIssues has awaited it
HasRun(n) == Len(detected) >= n /\ detected[n].ran /\ detected[n].layout # NoElement

\* the node whose layout element detector n inspected
Inspected(n) == page.nodes[detected[n].layout]

\* the element matches an exclude selector, or an ancestor of it does
Excluded(node, k) ==
  \E s \in 1..Len(config.exclude) :
    \/ \E a \in 1..Len(SelfAndAncestors(node.elements, k)) :
         InClassList(node.elements[SelfAndAncestors(node.elements, k)[a]], config.exclude[s])
    \/ config.exclude[s] \in OuterClasses(node)

\* the issues of detector n that are about element k
IssuesAt(n, k) == { i \in 1..Len(detected[n].results) : detected[n].results[i].at = k }

\* the computed style clips on an axis, or truncates with an ellipsis
ClipsOnAnAxis(style) ==
  style.overflowX = "hidden" \/ style.overflowY = "hidden" \/ style.textOverflow = "ellipsis"

Clamped(x) == IF x > 0 THEN x ELSE 0

\* C11: for every element of the inspected layout that is not excluded and
\* whose computed style clips, the text-overflow detector reports the element
\* exactly when max(0, scrollWidth - clientWidth) or max(0, scrollHeight -
\* clientHeight) is greater than the threshold, once, with these two values
\* as overflowX and overflowY.
C11_ClippedOverflowReported ==
  HasRun(1) =>
    \A k \in 1..Len(Inspected(1).elements) :
      LET el == Inspected(1).elements[k]
          overflowX == Clamped(el.scrollWidth - el.clientWidth)
          overflowY == Clamped(el.scrollHeight - el.clientHeight)
      IN (~Excluded(Inspected(1), k) /\ ClipsOnAnAxis(el.style)) =>
           /\ (IssuesAt(1, k) # {}) <=> (overflowX > config.threshold \/ overflowY > config.threshold)
           /\ Cardinality(IssuesAt(1, k)) <= 1
           /\ \A i \in IssuesAt(1, k) :
                /\ detected[1].results[i].type = "text-overflow"
                /\ detected[1].results[i].details.overflowX = overflowX
                /\ detected[1].results[i].details.overflowY = overflowY

\* an element with overflow hidden, scrollWidth 300 and clientWidth 200 has
\* been reported with a horizontal overflow of 100 under a threshold of 1
C11_Witness ==
  /\ HasRun(1)
  /\ config.threshold = 1
  /\ \E i \in 1..Len(detected[1].results) :
       LET el == Inspected(1).elements[detected[1].results[i].at]
       IN /\ el.style.overflowX = "hidden" /\ el.style.overflowY = "hidden"
          /\ el.scrollWidth = 300 /\ el.clientWidth = 200
          /\ detected[1].results[i].details.overflowX = 100

StyleOrGeometry(query) == query \notin {"matches", "closest"}

\* C13: no detector reports an element that matches an exclude selector or has
\* an ancestor matching one, and no detector asks for the style or the
\* geometry of such an element; the style and geometry queries on any element
\* come after the exclusion check on that element.
C13_ExcludedNeverReportedNorMeasured ==
  \A n \in 1..Len(detected) :
    HasRun(n) =>
      /\ \A k \in 1..Len(Inspected(n).elements) :
           Excluded(Inspected(n), k) =>
             /\ IssuesAt(n, k) = {}
             /\ \A q \in 1..Len(detected[n].queries) :
                  detected[n].queries[q].element = k => ~StyleOrGeometry(detected[n].queries[q].query)
      /\ \A q \in 1..Len(detected[n].queries) :
           (StyleOrGeometry(detected[n].queries[q].query) /\ config.exclude # <<>>) =>
             \E p \in 1..(q - 1) :
               detected[n].queries[p] = Query(detected[n].queries[q].element, "matches")

\* the three detectors have inspected a layout that holds an excluded element
\* which overflows in every way, and have reported nothing
C13_Witness ==
  /\ pc = "detected"
  /\ \A n \in 1..3 :
       /\ HasRun(n)
       /\ detected[n].results = <<>>
       /\ \E k \in 1..Len(Inspected(n).elements) :
            /\ Excluded(Inspected(n), k)
            /\ Inspected(n).elements[k].rect = Rect(90, 10, 110, 20)
            /\ Inspected(n).elements[k].scrollWidth = 300
            /\ Inspected(n).elements[k].style.overflowX = "auto"

\* the slide the four-step fallback resolves: the slide with the active
\* marker, or else the slide numbered by the address, or else the first slide
\* with a rendered size, or else the first slide of the document
FourStepSlide ==
  LET pages == { k \in 1..Len(page.nodes) : page.nodes[k].kind = "page" }
      first(S) == IF S = {} THEN NoElement ELSE CHOOSE k \in S : \A j \in S : k <= j
      marked == first({ k \in pages : page.nodes[k].active })
      addressed == ByAddress(page)
      sized == first({ k \in pages : Width(page.nodes[k].rect) > 0 /\ Height(page.nodes[k].rect) > 0 })
  IN IF marked # NoElement THEN marked
     ELSE IF addressed # NoElement THEN addressed
     ELSE IF sized # NoElement THEN sized
     ELSE first(pages)

\* C14: in every page state the three detectors resolve the same active slide
\* by the four-step fallback and inspect the same layout element, the one of
\* that slide.
C14_SameActiveSlide ==
  (pc = "detected" /\ \A n \in 1..3 : detected[n].ran) =>
    \A n \in 1..3 :
      detected[n].layout =
        IF FourStepSlide # NoElement /\ page.nodes[FourStepSlide].layout
        THEN FourStepSlide ELSE NoElement

\* the slide an attribution was asked for, when the project has it
OnLoadedSlide ==
  /\ pc = "attributed"
  /\ attributed.slideNumber \in 1..Len(mapper.slides)

AttributedSlide == mapper.slides[attributed.slideNumber]

\* the document lines of the slide that are the heading '# ' followed by text
TitleLines(text) ==
  { n \in AttributedSlide.startLine..AttributedSlide.endLine :
      SplitLines(markdown)[n] = <<"#", " ">> \o text }

\* C15: for an h1 issue whose text is the title of a '# Title' line of its
\* slide (of one such line, so that "that line" is determined), the returned issue's source.line and source.lineEnd are both the
\* document line number of that '# Title' line.
C15_H1AttributedToMatchingTitleLine ==
  (/\ OnLoadedSlide
   /\ attributed.given.element.tag = "h1"
   /\ attributed.given.element.text # <<>>
   /\ Cardinality(TitleLines(attributed.given.element.text)) = 1) =>
    \A n \in TitleLines(attributed.given.element.text) :
      /\ attributed.returned.source # <<>>
      /\ attributed.returned.source[1].line = n
      /\ attributed.returned.source[1].lineEnd = n

\* the tag-based finder and the text search both come back empty-handed
NeitherFinderMatches ==
  LET given == attributed.given
      slide == AttributedSlide
  IN /\ \/ tagMap(given.element.tag) = ""
        \/ findElementInSlide(slide.content, tagMap(given.element.tag), slide.startLine) = <<>>
     /\ \/ given.element.text = <<>>
        \/ findElementByText(slide.content, given.element.text, slide.startLine) = <<>>

\* C16: for every issue on a slide of the loaded source the returned issue has
\* its source set, to a line range inside the slide; when neither finder
\* matches, the range is the slide's own startLine..endLine.
C16_SourceAlwaysSetFallbackIsSlide ==
  OnLoadedSlide =>
    /\ attributed.returned.source # <<>>
    /\ attributed.returned.source[1].file = mapper.sourceFile
    /\ AttributedSlide.startLine <= attributed.returned.source[1].line
    /\ attributed.returned.source[1].line <= attributed.returned.source[1].lineEnd
    /\ attributed.returned.source[1].lineEnd <= AttributedSlide.endLine
    /\ NeitherFinderMatches =>
         /\ attributed.returned.source[1].line = AttributedSlide.startLine
         /\ attributed.returned.source[1].lineEnd = AttributedSlide.endLine

C16_Witness ==
  /\ OnLoadedSlide
  /\ attributed.given.element.tag = "p"
  /\ attributed.given.element.text = <<"z">>
  /\ NeitherFinderMatches
  /\ AttributedSlide.startLine = 2
  /\ AttributedSlide.endLine = 4
  /\ attributed.returned.source[1].line = 2
  /\ attributed.returned.source[1].lineEnd = 4

\* C17: the returned issue is the given issue with at most the source field
\* added, and the issue object that was given is as it was before the call.
C17_OnlySourceAddedInputUntouched ==
  pc = "attributed" =>
    /\ attributed.returned.type = attributed.given.type
    /\ attributed.returned.element = attributed.given.element
    /\ attributed.returned.details = attributed.given.details
    /\ [attributed.returned EXCEPT !.source = attributed.given.source] = attributed.given
    /\ issue = attributed.given

C17_Witness ==
  /\ OnLoadedSlide
  /\ attributed.returned.source # <<>>
  /\ attributed.given.source = <<>>
  /\ issue.source = <<>>
  /\ ~ attributed.same
  /\ attributed.returned.details = [overflowX |-> 12, overflowY |-> 0]

\* a returned presentation as a caller reads it now, compared with what the
\* same call returns on a parser that was just constructed
SameAsOnFreshInstance(result) ==
  LET fresh == parsePresentationOn(NewParser.heap, NewParser.instance, result.input,
                                   parsePresentation(result.input))
  IN /\ result.threw = fresh.returned.threw
     /\ ~ result.threw =>
          /\ result.globalConfig = fresh.returned.globalConfig
          /\ result.slides = fresh.returned.slides
          /\ result.totalLines = fresh.returned.totalLines
          /\ heap[result.warnings] = fresh.heap[fresh.returned.warnings]

\* C18: after any sequence of parsePresentation calls on one instance, every
\* result returned so far, read now, equals the result of the same call on a
\* fresh instance: no call's result depends on earlier calls, and no earlier
\* result is changed by a later call.
C18_CallsAreIndependent ==
  \A i \in 1..Len(returned) : SameAsOnFreshInstance(returned[i])

C18_Witness ==
  /\ Len(returned) = 3
  /\ returned[1].input = Document(<< Fence >>)
  /\ returned[2].input = Document(<< <<"#"," ","A">> >>)
  /\ returned[3].input = Document(<< Fence, Dashes, Fence >>)
  /\ Len(heap[returned[1].warnings]) = 1
  /\ heap[returned[2].warnings] = <<>>
  /\ Len(heap[returned[3].warnings]) = 2

\* the pages the range names that are slides of the presentation
PagesToCheck == checker.asked \cap (1..checker.totalSlides)

\* C19: only pages that the range names and that lie in 1..T are ever
\* navigated to, and a finished check has visited exactly these pages, each
\* once, in ascending order.
C19_ChecksExactlyRequestedPages ==
  /\ pc \in {"checking", "checked"} =>
       \A i \in 1..Len(checker.visited) : checker.visited[i] \in PagesToCheck
  /\ pc = "checked" =>
       /\ { checker.visited[i] : i \in 1..Len(checker.visited) } = PagesToCheck
       /\ \A i \in 1..Len(checker.visited), j \in 1..Len(checker.visited) :
            i < j => checker.visited[i] < checker.visited[j]

\* the value an option has when the user wrote it on the command line
CommandLineValue(o) ==
  IF o = "threshold"
  THEN IF options.argv.threshold = << <<"5">> >> THEN <<5>> ELSE <<0>>
  ELSE options.argv[o]

\* C20: for every option, the checker is constructed with the command-line
\* value when the user passed the option, and otherwise with the value of the
\* configuration file when the file sets one.
C20_ConfigUsedWhenCliAbsent ==
  pc = "check" =>
    \A o \in OptionNames :
      /\ options.argv[o] # <<>> => options.checkerOptions[o] = CommandLineValue(o)
      /\ (options.argv[o] = <<>> /\ options.file[o] # <<>>) =>
           options.checkerOptions[o] = options.file[o]

\* the calls of a finished navigation that went into the catch block
NavigationFailed == pc \in {"navigated", "threw"} /\ nav.log # <<>>

CallsNamed(name) == { k \in 1..Len(nav.calls) : nav.calls[k] = name }

\* C22: when navigating to a slide fails, navigateToSlide warns once, waits
\* the fixed backoff once, waits for the slide to load once more, and returns
\* to its caller without throwing; the navigation call is not made again.
C22_OneRetryNeverPropagates ==
  NavigationFailed =>
    /\ nav.log = <<"retrying">>
    /\ Cardinality(CallsNamed("waitForTimeout(500)")) = 1
    /\ pc = "navigated"

\* the workers of the check, and the slides a worker has navigated to
RunWorkerIds == 1..Len(session.workers)

WorkerFinished(w) == session.workers[w].at \in {"done", "rejected"}

\* a worker whose navigateToSlide or detectIssues threw
SlideStepFailed(w) == session.workers[w].failed /\ session.workers[w].log # <<>>

SlidesNavigated(w) == { session.workers[w].log[k][2] : k \in 1..Len(session.workers[w].log) }

\* C21: when the navigation or the detection of one slide fails, the check
\* still returns a result and every slide of the page range is still visited.
C21_SlideFailureSkipsSlide ==
  (pc = "settled" /\ \E w \in RunWorkerIds : SlideStepFailed(w)) =>
    /\ session.outcome = "resolved"
    /\ \A k \in 1..Len(session.pageRange) :
         \E w \in RunWorkerIds : session.pageRange[k] \in SlidesNavigated(w)

\* C23: in a concurrent check the shared browser is closed, and the error
\* reaches the caller, only after every worker has finished its work.
C23_ErrorAfterEveryWorkerFinished ==
  (session.concurrency > 1 /\ (session.browser = "closed" \/ session.outcome = "rejected")) =>
    \A w \in RunWorkerIds : WorkerFinished(w)

\* what a worker has done so far is a prefix of: navigate, detect, navigate,
\* detect, ... over the slides of its chunk in their order
InLoopOrder(worker) ==
  \A k \in 1..Len(worker.log) :
    worker.log[k] = <<IF k % 2 = 1 THEN "navigate" ELSE "detect", worker.chunk[(k + 1) \div 2]>>

StrictlyAscending(seq) == \A i \in 1..Len(seq), j \in 1..Len(seq) : i < j => seq[i] < seq[j]

\* C25: the sequential loop and every worker take their slides in strictly
\* ascending order, and navigate to the next slide only after the detection
\* of the slide before it.
C25_AscendingOneSlideAtATime ==
  \A w \in RunWorkerIds :
    /\ StrictlyAscending(session.workers[w].chunk)
    /\ InLoopOrder(session.workers[w])

\* a worker on the range of "3,1" has begun its second slide
C25_Witness ==
  /\ session.pages = << <<"3", ",", "1">> >>
  /\ \E w \in RunWorkerIds :
       /\ session.workers[w].chunk = <<1, 3>>
       /\ Len(session.workers[w].log) >= 3

\* what the sequential loop pushes for a page range
RECURSIVE SequentialSlides(_, _)
SequentialSlides(pageRange, issues) ==
  IF pageRange = <<>> THEN <<>>
  ELSE LET rest == SequentialSlides(Tail(pageRange), issues)
       IN IF issues[Head(pageRange) + 1] > 0
          THEN <<[page |-> Head(pageRange), issueCount |-> issues[Head(pageRange) + 1]]>> \o rest
          ELSE rest

SeqElements(seq) == { seq[k] : k \in 1..Len(seq) }

Resolved == pc = "settled" /\ session.outcome = "resolved"

\* C29: under every interleaving the slide results pushed so far are results
\* of the sequential check, each at most once; a check that returns a result
\* returns exactly the slide results of the sequential check, each once and
\* in any order, none without issues, and issuesFound is their sum.
C29_SameResultsAsSequential ==
  LET sequential == SequentialSlides(session.pageRange, session.issues)
  IN /\ session # Idle =>
          /\ SeqElements(session.results) \subseteq SeqElements(sequential)
          /\ Cardinality(SeqElements(session.results)) = Len(session.results)
     /\ Resolved =>
          LET result == session.result[1]
          IN /\ SeqElements(result.slides) = SeqElements(sequential)
             /\ Len(result.slides) = Len(sequential)
             /\ \A k \in 1..Len(result.slides) : result.slides[k].issueCount > 0
             /\ result.issuesFound = SumIssueCounts(sequential)

\* two workers returned the results in another order than the sequential loop
C29_Witness ==
  /\ Resolved
  /\ Len(session.workers) = 2
  /\ Len(session.result[1].slides) >= 2
  /\ session.result[1].slides # SequentialSlides(session.pageRange, session.issues)

ChunksCut == pc = "checking" /\ checker.visited = <<>> /\ checker.concurrency > 1

RECURSIVE ConcatChunks(_)
ConcatChunks(chunks) ==
  IF chunks = <<>> THEN <<>> ELSE Head(chunks) \o ConcatChunks(Tail(chunks))

\* contiguous, not empty, and in order the page range again; the range has
\* no page twice, so the chunks are pairwise disjoint
ChunksPartitionRange ==
  /\ \A w \in 1..Len(checker.workers) : checker.workers[w] # <<>>
  /\ ConcatChunks(checker.workers) = checker.pageRange
  /\ \A w \in 1..Len(checker.workers), v \in 1..Len(checker.workers) :
       w # v => SeqElements(checker.workers[w]) \cap SeqElements(checker.workers[v]) = {}

\* the least whole number of pages per chunk with which c chunks hold n pages
PagesPerChunk(n, c) == CHOOSE s \in 0..n : s * c >= n /\ (s = 0 \/ (s - 1) * c < n)

\* C24 as stated: the chunks partition the page range, and there are as many
\* chunks as workers were requested.
C24_OneChunkPerRequestedWorker ==
  ChunksCut =>
    /\ ChunksPartitionRange
    /\ Len(checker.workers) = checker.concurrency

\* C24: the chunks partition the page range; every chunk but the last has
\* ceil(n / c) pages and the last has at most that many, so there are at
\* most c chunks.
C24_ChunksPartitionAtMostRequested ==
  ChunksCut =>
    LET chunks == checker.workers
        size == PagesPerChunk(Len(checker.pageRange), checker.concurrency)
    IN /\ ChunksPartitionRange
       /\ Len(chunks) <= checker.concurrency
       /\ \A w \in 1..Len(chunks) :
            IF w < Len(chunks) THEN Len(chunks[w]) = size ELSE Len(chunks[w]) <= size

\* two chunks or more, the last one shorter than the first, and fewer
\* chunks than requested
C24_Witness ==
  /\ ChunksCut
  /\ Len(checker.workers) >= 2
  /\ Len(checker.workers) < checker.concurrency
  /\ Len(checker.workers[Len(checker.workers)]) <= Len(checker.workers[1])

\* the emitted nodes of two slides are the same but for where they stand
SameNodes(a, b) ==
  /\ Len(a) = Len(b)
  /\ \A k \in 1..Len(a) : a[k].type = b[k].type /\ a[k].content = b[k].content

\* C27: the metrics of a slide are determined by its emitted nodes: every
\* element count is the number of nodes of that type, and two slides with
\* the same nodes have the same character and word counts.
C27_MetricsFromNodesAlone ==
  (pc = "parsed" /\ ~ presentation.threw) =>
    \A a \in 1..Len(presentation.slides), b \in 1..Len(presentation.slides) :
      /\ presentation.slides[a].metrics.elementCounts.headings
           = CountOfType(presentation.slides[a].contentNodes, "heading")
      /\ SameNodes(presentation.slides[a].contentNodes, presentation.slides[b].contentNodes) =>
           presentation.slides[a].metrics = presentation.slides[b].metrics

\* a turn of the scan has been made
TurnMade == scan # Idle /\ scan.from >= 0

\* the kind of line the last turn started at
StartedAt(kind) ==
  /\ TurnMade
  /\ scan.nodes # <<>>
  /\ scan.nodes[Len(scan.nodes)].type = kind
  /\ scan.nodes[Len(scan.nodes)].lineStart = 1 + scan.from

\* C28: after every turn of the scan, whichever sub-parser it called, the
\* index is strictly greater than the index the turn started at and at most
\* one past the last line, so the scan ends after at most as many turns as
\* the slide has lines.
C28_ScanIndexAdvances ==
  TurnMade =>
    /\ scan.i > scan.from
    /\ scan.i <= Len(scan.lines) + 1

\* parseList took a list of two lines in one turn
C28_Witness ==
  /\ StartedAt("list")
  /\ scan.i = scan.from + 2
  /\ pc = "scanning"

\* the document lines of the attributed slide that hold the construct of a tag
ConstructLines(tag) ==
  { n \in AttributedSlide.startLine..AttributedSlide.endLine :
      LET line == SplitLines(markdown)[n]
      IN IF tag = "h1" THEN StartsWith(line, <<"#", " ">>)
         ELSE IF tag = "h2" THEN StartsWith(line, <<"#", "#", " ">>)
         ELSE IF tag \in {"h3", "h4"} THEN StartsWith(line, <<"#", "#", "#", " ">>)
         ELSE IF tag = "img" THEN ImageLine(line)
         ELSE IF tag = "pre" THEN IsFenceLine(line)
         ELSE FALSE }

LeastOf(S) == CHOOSE n \in S : \A m \in S : n <= m

\* the slide holds the construct: a line of it, or for pre an opening and a
\* closing fence
HoldsConstruct(tag) ==
  IF tag = "pre" THEN Cardinality(ConstructLines(tag)) >= 2 ELSE ConstructLines(tag) # {}

ConstructStart(tag) == LeastOf(ConstructLines(tag))

ConstructEnd(tag) ==
  IF tag = "pre" THEN LeastOf(ConstructLines(tag) \ { ConstructStart(tag) })
  ELSE ConstructStart(tag)

AttributedToConstruct(tag) ==
  /\ attributed.returned.source # <<>>
  /\ attributed.returned.source[1].line = ConstructStart(tag)
  /\ attributed.returned.source[1].lineEnd = ConstructEnd(tag)

\* C26: an issue with tag h1, h2, h3, h4, pre or img on a slide that holds
\* the tag's construct is attributed to the first occurrence of the construct
\* in the slide, whatever the element's text is.
C26_TagAttributedToFirstConstruct ==
  (OnLoadedSlide /\ HoldsConstruct(attributed.given.element.tag)) =>
    AttributedToConstruct(attributed.given.element.tag)


====
